---- MODULE Spec2Model ----
(***************************************************************************)
(* Delta-sync ingestion pipeline: SyncEngine (logic/sync_engine.py) over   *)
(* DBManager (database/db_manager.py).                                     *)
(*                                                                         *)
(* One sync cycle is one call of SyncEngine.start(): index setup, remote   *)
(* listing, delta comparison against the checksum table, a batch of        *)
(* concurrent _process_single_file coroutines behind a semaphore, and the  *)
(* assistant update.  Every await of the code is one step of the model.    *)
(* Downloads and processed texts live in the scratch directory temp_data.  *)
(* SemanticChunker.chunk_text (logic/semantic_chunker.py) is a pure        *)
(* function of its text; SpecChunk applies it to short texts.              *)
(***************************************************************************)
EXTENDS Bags, FiniteSets, Integers, Naturals, Sequences, TLC

(* ---------------------------------------------------------------------- *)
(* Bounds and program constants                                            *)
(* ---------------------------------------------------------------------- *)

\* longest remote listing drawn in an ordinary cycle
MaxFiles == 2

\* length of the listing of the large batch that SpecGate starts in
GateFiles == 11

\* sync_engine.py:279  max_concurrent_tasks = 10
max_concurrent_tasks == 10

\* longest text handed to chunk_text
MaxTextLen == 6

\* largest max_chunk_chars a SemanticChunker of SpecChunk is built with; two
\* paragraphs of one character share a chunk from 6 on
MaxChunkChars == 6

\* semantic_chunker.py:12  max_chunk_chars: int = 3000
default_max_chunk_chars == 3000

\* sync_engine.py:32  TEMP_DIR = Path("temp_data")
TEMP_DIR == "temp_data"

Ids == {"a", "b"}

Checksums == {"x", "y"}

\* Python's None
None == "None"

\* the values upload_file_to_store returns (openai_client.py:130-137): a
\* batch that did not complete raises, nothing falsy is ever returned
UploadStatuses == {"upload_success"}

\* file names as sequences of characters; "/" is a character of a Drive name
\* that download_file does not keep
Names == {<<"r">>, <<"r", "/">>, <<"s">>}

\* characters of texts: a lower-case letter, an upper-case letter, a
\* sentence-ending punctuation mark, a space and a newline
Chars == {"a", "A", ".", " ", "\n"}

VARIABLES
    phase,              \* the await at which start() stands, or "idle"
    outcome,            \* how the last start() ended: "none", "completed", "raised"
    drive_files,        \* start(): drive_files, the remote listing of this cycle
    files_to_process,   \* start(): files_to_process, the processing queue
    file_table,         \* DBManager.file_table: sequence of records
    locked,             \* DBManager._lock is held
    semaphore,          \* free slots of the batch's asyncio.Semaphore
    tasks,              \* bag of the batch's _process_single_file coroutines
                        \* (coroutines of equal file and state are interchangeable)
    confirmed,          \* history: <<id, checksum>> pairs whose upload returned truthy
    temp_data,          \* paths of the files that exist in TEMP_DIR
    summary,            \* _process_file_batch: <<success_count, fail_count>> as logged
    error_log,          \* names in the "Failed to process" lines logged by this batch
    text,               \* chunk_text: its argument
    max_chunk_chars,    \* SemanticChunker.max_chunk_chars
    chunks,             \* chunk_text: << >> before the call, then <<return value>>
    raw_chunk_text,     \* inject_metadata: its first argument
    metadata_dict,      \* inject_metadata: its second argument
    inject_outcome,     \* inject_metadata: "none" before the call, then "returned" or "raised"
    enriched_chunk,     \* inject_metadata: the returned text
    call,               \* the decorated function that is being called, or None
    attempts,           \* tenacity: the exceptions its attempts raised so far
    call_state,         \* "idle", "attempting", "returned" or "raised"
    surfaced,           \* the exception that left the decorated call, or None
    handled,            \* what the caller's handler made of it: "none", "False" (the
                        \* coroutine returned False) or "raised" (start() raised)
    main_pc,            \* main(): the statement it stands at, "none" when not run
    success_logged,     \* main(): "System finished successfully" was logged
    exit_status,        \* main(): << >>, then <<the status handed to sys.exit>>
    processing_queue,   \* _get_files_to_process: processing_queue while the loop runs
    lookups,            \* _get_files_to_process: entries of drive_files looked up so far
    lock_object,        \* DBManager._lock: 0 for None, else the number of the Lock
    locks_made,         \* how many asyncio.Lock objects the lock property has made
    callers,            \* coroutines in check_file_status / mark_file_as_processed
    extracted_pages,    \* _process_single_file: << >>, then <<extracted_pages>>
    final_document_text \* << >>, then <<the text written to processed_path>>

vars == <<phase, outcome, drive_files, files_to_process, file_table, locked,
          semaphore, tasks, confirmed, temp_data, summary, error_log,
          text, max_chunk_chars, chunks,
          raw_chunk_text, metadata_dict, inject_outcome, enriched_chunk,
          call, attempts, call_state, surfaced, handled,
          main_pc, success_logged, exit_status,
          processing_queue, lookups, lock_object, locks_made, callers,
          extracted_pages, final_document_text>>

(* ---------------------------------------------------------------------- *)
(* Remote listings                                                         *)
(* ---------------------------------------------------------------------- *)

\* A listing is a snapshot of the remote folder tree: every id has one name
\* and one checksum in it.  _walk_folder_tree appends one entry per file it meets and
\* does not deduplicate, so an id may be listed more than once.
SeqsUpTo(S, n) == UNION {[1..k -> S] : k \in 0..n}

ListingOf(ids, names, remote) ==
    [i \in 1..Len(ids) |->
        [id |-> ids[i], name |-> names[ids[i]], md5Checksum |-> remote[ids[i]]]]

\* every document under a name of its own
OwnNames == [id \in Ids |-> IF id = "a" THEN <<"r">> ELSE <<"s">>]

\* listings of documents with names of their own and any checksums
Listings(n) ==
    {ListingOf(ids, OwnNames, remote) :
        ids \in SeqsUpTo(Ids, n), remote \in [Ids -> Checksums]}

\* listings of new documents with any names
NamedListings(n) ==
    {ListingOf(ids, names, [id \in Ids |-> "x"]) :
        ids \in SeqsUpTo(Ids, n), names \in [Ids -> Names]}

(* ---------------------------------------------------------------------- *)
(* DBManager: the checksum table                                           *)
(* ---------------------------------------------------------------------- *)

\* a record written without the checksum of the listing
RecordWithoutChecksum(file) ==
    [file_id |-> file.id, file_name |-> file.name, checksum |-> None,
     status |-> "synced"]

\* the document of mark_file_as_processed (lines 68-73)
Record(file) ==
    [file_id |-> file.id, file_name |-> file.name, checksum |-> file.md5Checksum,
     status |-> "synced"]

Matching(table, file_id) == {i \in 1..Len(table) : table[i].file_id = file_id}

\* file_table.get(FileQuery.file_id == file_id): the first matching record
\* as a one-element sequence, << >> for Python's None
TableGet(table, file_id) ==
    IF Matching(table, file_id) = {} THEN << >>
    ELSE LET first == CHOOSE i \in Matching(table, file_id) :
                          \A j \in Matching(table, file_id) : i <= j
         IN  <<table[first]>>

\* an upsert that throws the other records away
TableOverwrite(table, record) == <<record>>

\* a mis-written upsert that always inserts
TableInsert(table, record) == Append(table, record)

\* file_table.upsert(record, FileQuery.file_id == file_id): overwrite every
\* matching record, insert when none matches
TableUpsert(table, record) ==
    IF Matching(table, record.file_id) = {} THEN Append(table, record)
    ELSE [i \in 1..Len(table) |->
             IF table[i].file_id = record.file_id THEN record ELSE table[i]]

\* check_file_status: <<is_processed, stored_checksum>>
check_file_status(table, file_id) ==
    LET result == TableGet(table, file_id)
    IN  IF result # << >> THEN <<TRUE, result[1].checksum>> ELSE <<FALSE, None>>

\* an upsert that keeps the checksum of a record it finds
mark_keep_existing(table, file) ==
    IF Matching(table, file.id) = {} THEN Append(table, Record(file)) ELSE table

\* mark_file_as_processed, the table after a write that did not raise
mark_file_as_processed(table, file) == TableUpsert(table, Record(file))

(* ---------------------------------------------------------------------- *)
(* DeltaComparator                                                         *)
(* ---------------------------------------------------------------------- *)

\* a comparator that queues every listed file
needs_processing_always(table, file) == TRUE

\* a comparator that queues new files only
needs_processing_new_only(table, file) == ~check_file_status(table, file.id)[1]

\* the branch of the loop body of _get_files_to_process that appends
needs_processing(table, file) ==
    LET status == check_file_status(table, file.id)
    IN  IF ~status[1] THEN TRUE
        ELSE IF status[2] # file.md5Checksum THEN TRUE
        ELSE FALSE

RECURSIVE QueueFrom(_, _, _)
QueueFrom(table, files, i) ==
    IF i > Len(files) THEN << >>
    ELSE IF needs_processing(table, files[i])
         THEN <<files[i]>> \o QueueFrom(table, files, i + 1)
         ELSE QueueFrom(table, files, i + 1)

RECURSIVE Reversed(_)
Reversed(seq) == IF seq = << >> THEN << >> ELSE Reversed(Tail(seq)) \o <<Head(seq)>>

\* a comparator that builds its queue back to front
get_files_to_process_reversed(table, files) == Reversed(QueueFrom(table, files, 1))

\* _get_files_to_process(drive_files)
get_files_to_process(table, files) == QueueFrom(table, files, 1)

(* ---------------------------------------------------------------------- *)
(* PipelineWorker: _process_single_file                                    *)
(* ---------------------------------------------------------------------- *)

\* pc of a coroutine: the await it stands at
\*   Discovered   async with semaphore            (line 192)
\*   Downloading  drive.download_file             (line 196)
\*   Extracting   extractor.extract_document      (line 210)
\*   Chunking     chunks built, _write_text_file  (lines 216-234)
\*   Uploading    openai.upload_file_to_store     (line 238)
\*   Committing   async with db.lock              (db_manager.py:64)
\*   Upserting    file_table.upsert in a thread   (db_manager.py:66)
\*   done         returned; result is the return value
Slotted == {"Downloading", "Extracting", "Chunking", "Uploading", "Committing", "Upserting"}

Stages == {"Downloading", "Extracting", "Chunking", "Uploading"}

Worker(file) ==
    [file |-> file, pc |-> "Discovered", upload_status |-> None, result |-> None]

RECURSIVE BagOfWorkers(_)
BagOfWorkers(files) ==
    IF files = << >> THEN EmptyBag
    ELSE SetToBag({Worker(Head(files))}) (+) BagOfWorkers(Tail(files))

Replace(bag, w, v) == (bag (-) SetToBag({w})) (+) SetToBag({v})

CountPc(bag, pcs) ==
    BagCardinality([w \in {v \in BagToSet(bag) : v.pc \in pcs} |-> bag[w]])

\* a pipeline that goes from the download straight to chunking
NextStageSkipping(pc) ==
    CASE pc = "Downloading" -> "Chunking"
      [] pc = "Extracting"  -> "Chunking"
      [] pc = "Chunking"    -> "Uploading"

NextStage(pc) ==
    CASE pc = "Downloading" -> "Extracting"
      [] pc = "Extracting"  -> "Chunking"
      [] pc = "Chunking"    -> "Uploading"

\* a semaphore that admits without a free slot
SemaphoreAlwaysFree(value) == TRUE

\* Semaphore.acquire returns at once only when a slot is left
SemaphoreFree(value) == value > 0

\* an acquire that forgets to count the slot it hands out
TakeNoSlot(value) == value

\* Semaphore.acquire counts the slot it hands out
TakeSlot(value) == value - 1

\* an exit that keeps the slot
KeepSlot(value) == value

\* leaving `async with semaphore` gives the slot back
ReleaseSlot(value) == value + 1

\* `if upload_status:`
Truthy(status) == status # None /\ status # ""

Returned(w, result) ==
    [w EXCEPT !.pc = "done", !.upload_status = None, !.result = result]

\* a handler that lets the exception leave the coroutine
ExceptReraise(w) == [w EXCEPT !.pc = "raised", !.upload_status = None]

\* a handler that reports the failed file as a success
ExceptReturnsTrue(w) == Returned(w, "True")

\* `except Exception as e: ... return False`
ExceptHandler(w) == Returned(w, "False")

\* the characters download_file keeps in a file name (drive_client.py:166)
Letters == {"r", "s"}

Digits == {"0", "1"}

\* "".join([c for c in file_name if c.isalpha() or c.isdigit() or c in " ._-"])
safe_filename(file) ==
    SelectSeq(file.name,
              LAMBDA c : c \in Letters \/ c \in Digits \/ c \in {" ", ".", "_", "-"})

\* os.path.join(destination_dir, safe_filename): the path download_file
\* writes and returns
local_path(file) == <<TEMP_DIR>> \o safe_filename(file)

\* f"{local_path}_processed.txt" (line 233)
processed_path(file) == local_path(file) \o <<"_processed.txt">>

\* a batch summary that counts every returned coroutine as a success
success_count_all(bag) == BagCardinality(bag)

\* sum(1 for result in results if result is True)
success_count(bag) ==
    BagCardinality([w \in {v \in BagToSet(bag) : v.result = "True"} |-> bag[w]])

\* a summary that counts failures against the whole listing
fail_count_of_listing(files, bag) == Len(drive_files) - success_count(bag)

\* len(files) - success_count
fail_count(files, bag) == Len(files) - success_count(bag)

(* ---------------------------------------------------------------------- *)
(* The cycle: SyncEngine.start                                             *)
(* ---------------------------------------------------------------------- *)

CycleLocals == <<drive_files, files_to_process>>

StoreVars == <<file_table, locked, confirmed>>

BatchVars == <<semaphore, tasks>>

LogVars == <<summary, error_log>>

ChunkerVars == <<text, max_chunk_chars, chunks>>

InjectorVars == <<raw_chunk_text, metadata_dict, inject_outcome, enriched_chunk>>

RetryVars == <<call, attempts, call_state, surfaced, handled>>

MainVars == <<main_pc, success_logged, exit_status>>

\* the variables no step of the sync cycle touches
\* the state of the closer looks at the comparator loop, at the lock
\* property and at the payload of one coroutine
DetailVars == <<processing_queue, lookups, lock_object, locks_made, callers,
                extracted_pages, final_document_text>>

OutsideCycle == <<ChunkerVars, InjectorVars, RetryVars, MainVars, DetailVars>>

\* a dict without a key
EmptyDict == [field \in {} |-> << >>]

\* inject_metadata has not been called
InjectorIdle ==
    /\ raw_chunk_text = << >>
    /\ metadata_dict = EmptyDict
    /\ inject_outcome = "none"
    /\ enriched_chunk = << >>

\* no decorated call is looked at
RetryIdle ==
    /\ call = None
    /\ attempts = << >>
    /\ call_state = "idle"
    /\ surfaced = None
    /\ handled = "none"

\* no closer look is taken
DetailIdle ==
    /\ processing_queue = << >>
    /\ lookups = 0
    /\ lock_object = 0
    /\ locks_made = 0
    /\ callers = << >>
    /\ extracted_pages = << >>
    /\ final_document_text = << >>

\* main() is not what runs the engine
MainIdle ==
    /\ main_pc = "none"
    /\ success_logged = FALSE
    /\ exit_status = << >>

\* a cleanup that leaves the directory as it finds it
keep_temp_dir(dir) == dir

\* _prepare_temp_dir: rmtree of an existing directory, then mkdir
prepare_temp_dir(dir) == {}

\* an except block that logs and does not raise again
Swallowed == "completed"

\* `except Exception as e: ... raise e` (lines 93-95): start() ends by raising
Reraised == "raised"

\* the except/finally of start(): the scratch directory is emptied, the
\* locals are gone, the engine is idle
Finish(how) ==
    /\ phase' = "idle"
    /\ outcome' = how
    /\ drive_files' = << >>
    /\ files_to_process' = << >>
    /\ temp_data' = prepare_temp_dir(temp_data)
    /\ summary' = None
    /\ error_log' = {}
    /\ UNCHANGED OutsideCycle

StartCycle ==
    /\ phase = "idle"
    /\ phase' = "ensure_vector_store"
    /\ outcome' = "none"
    /\ UNCHANGED <<CycleLocals, StoreVars, BatchVars, temp_data, LogVars, OutsideCycle>>

EnsureVectorStoreReturn ==
    /\ phase = "ensure_vector_store"
    /\ phase' = "list_pdfs"
    /\ UNCHANGED <<outcome, CycleLocals, StoreVars, BatchVars, temp_data, LogVars,
                   OutsideCycle>>

EnsureVectorStoreRaise ==
    /\ phase = "ensure_vector_store"
    /\ Finish(Reraised)
    /\ UNCHANGED <<StoreVars, BatchVars>>

\* line 75: list_pdfs_in_folder returned one of `listings`
ListPdfsReturnFrom(listings) ==
    /\ phase = "list_pdfs"
    /\ \E listing \in listings : drive_files' = listing
    /\ phase' = "compare"
    /\ UNCHANGED <<outcome, files_to_process, StoreVars, BatchVars, temp_data,
                   LogVars, OutsideCycle>>

ListPdfsReturn == ListPdfsReturnFrom(Listings(MaxFiles))

\* a folder tree that lists one document GateFiles times, more often than
\* the semaphore has slots
GateListing ==
    [i \in 1..GateFiles |-> [id |-> "a", name |-> <<"r">>, md5Checksum |-> "x"]]

ListPdfsReturnGate == ListPdfsReturnFrom({GateListing})

\* a folder tree of new documents whose names may coincide
ListPdfsReturnNamed == ListPdfsReturnFrom(NamedListings(MaxFiles))

ListPdfsRaise ==
    /\ phase = "list_pdfs"
    /\ Finish(Reraised)
    /\ UNCHANGED <<StoreVars, BatchVars>>

\* a lock that is handed out while it is held
LockAlwaysFree(held) == TRUE

\* asyncio.Lock.acquire returns at once only when the lock is not held
LockFree(held) == ~held

\* lines 79-85: the queue is computed, every check_file_status takes and
\* gives back the lock; an empty queue skips the batch, otherwise
\* _process_file_batch creates the semaphore and one coroutine per queued file
Compare ==
    /\ phase = "compare"
    /\ LockFree(locked)
    /\ LET queue == get_files_to_process(file_table, drive_files)
       IN  /\ files_to_process' = queue
           /\ IF queue = << >>
              THEN /\ phase' = "ensure_assistant"
                   /\ UNCHANGED BatchVars
              ELSE /\ phase' = "batch"
                   /\ semaphore' = max_concurrent_tasks
                   /\ tasks' = BagOfWorkers(queue)
    /\ UNCHANGED <<outcome, drive_files, StoreVars, temp_data, LogVars, OutsideCycle>>

(* ---------------------------------------------------------------------- *)
(* Steps of one coroutine                                                  *)
(* ---------------------------------------------------------------------- *)

\* the waiting coroutine w is admitted; asyncio wakes waiters in arrival
\* order, the model lets any of them be next
AcquireSlotOf(w) ==
    /\ phase = "batch"
    /\ SemaphoreFree(semaphore)
    /\ w.pc = "Discovered"
    /\ tasks' = Replace(tasks, w, [w EXCEPT !.pc = "Downloading"])
    /\ semaphore' = TakeSlot(semaphore)
    /\ UNCHANGED <<phase, outcome, CycleLocals, StoreVars, temp_data, LogVars,
                   OutsideCycle>>

AcquireSlot == \E w \in BagToSet(tasks) : AcquireSlotOf(w)

\* download, extraction and the text-file write returned: the next await.
\* The download leaves its file (drive_client.py:171-181), the extraction
\* needs it (extraction_service.py:31-33), _write_text_file leaves the
\* processed text (line 234)
StageReturn ==
    /\ phase = "batch"
    /\ \E w \in BagToSet(tasks) :
          /\ w.pc \in {"Downloading", "Extracting", "Chunking"}
          /\ w.pc = "Extracting" => local_path(w.file) \in temp_data
          /\ tasks' = Replace(tasks, w, [w EXCEPT !.pc = NextStage(w.pc)])
          /\ temp_data' =
                CASE w.pc = "Downloading" -> temp_data \cup {local_path(w.file)}
                  [] w.pc = "Extracting"  -> temp_data
                  [] w.pc = "Chunking"    -> temp_data \cup {processed_path(w.file)}
    /\ UNCHANGED <<phase, outcome, CycleLocals, StoreVars, semaphore, LogVars,
                   OutsideCycle>>

\* an await of the try block of w raised: the handler logs the file name and
\* returns False, the slot is given back.  A download that raised inside its
\* own try block has removed the file at its path (drive_client.py:183-192)
StageRaiseOf(w) ==
    /\ phase = "batch"
    /\ w.pc \in Stages
    /\ tasks' = Replace(tasks, w, ExceptHandler(w))
    /\ \E removed \in {{}, {local_path(w.file)}} :
          /\ removed # {} => w.pc = "Downloading"
          /\ temp_data' = temp_data \ removed
    /\ error_log' = error_log \cup {w.file.name}
    /\ semaphore' = ReleaseSlot(semaphore)
    /\ UNCHANGED <<phase, outcome, CycleLocals, StoreVars, summary, OutsideCycle>>

StageRaise == \E w \in BagToSet(tasks) : StageRaiseOf(w)

\* lines 238-252 and 267: the upload found its file (openai_client.py:114-116)
\* and returned a status
UploadReturn ==
    /\ phase = "batch"
    /\ \E w \in BagToSet(tasks), status \in UploadStatuses :
          /\ w.pc = "Uploading"
          /\ processed_path(w.file) \in temp_data
          /\ IF Truthy(status)
             THEN /\ tasks' = Replace(tasks, w,
                                 [w EXCEPT !.pc = "Committing", !.upload_status = status])
                  /\ semaphore' = semaphore
             ELSE /\ tasks' = Replace(tasks, w, Returned(w, "False"))
                  /\ semaphore' = ReleaseSlot(semaphore)
          /\ confirmed' = IF status = "upload_success"
                          THEN confirmed \cup {<<w.file.id, w.file.md5Checksum>>}
                          ELSE confirmed
    /\ UNCHANGED <<phase, outcome, CycleLocals, file_table, locked, temp_data,
                   LogVars, OutsideCycle>>

\* the coroutine w, whose upload was confirmed, enters `async with self.lock`
AcquireLockOf(w) ==
    /\ phase = "batch"
    /\ LockFree(locked)
    /\ w.pc = "Committing"
    /\ tasks' = Replace(tasks, w, [w EXCEPT !.pc = "Upserting"])
    /\ locked' = TRUE
    /\ UNCHANGED <<phase, outcome, CycleLocals, file_table, confirmed, semaphore,
                   temp_data, LogVars, OutsideCycle>>

AcquireLock == \E w \in BagToSet(tasks) : AcquireLockOf(w)

\* the upsert was written: lock and slot are released, the worker returns True
UpsertReturn ==
    /\ phase = "batch"
    /\ \E w \in BagToSet(tasks) :
          /\ w.pc = "Upserting"
          /\ file_table' = mark_file_as_processed(file_table, w.file)
          /\ tasks' = Replace(tasks, w, Returned(w, "True"))
    /\ locked' = FALSE
    /\ semaphore' = ReleaseSlot(semaphore)
    /\ UNCHANGED <<phase, outcome, CycleLocals, confirmed, temp_data, LogVars,
                   OutsideCycle>>

\* the write of w raised: db_manager.py:77-79 re-raises, the worker's handler
\* logs the file name and returns False
UpsertRaiseOf(w) ==
    /\ phase = "batch"
    /\ w.pc = "Upserting"
    /\ tasks' = Replace(tasks, w, ExceptHandler(w))
    /\ error_log' = error_log \cup {w.file.name}
    /\ locked' = FALSE
    /\ semaphore' = ReleaseSlot(semaphore)
    /\ UNCHANGED <<phase, outcome, CycleLocals, file_table, confirmed, temp_data,
                   summary, OutsideCycle>>

UpsertRaise == \E w \in BagToSet(tasks) : UpsertRaiseOf(w)

\* asyncio.gather: returns when every coroutine returned, raises as soon as
\* one raised; lines 293-296 count the results and log the summary
GatherReturn ==
    /\ phase = "batch"
    /\ \/ \A w \in BagToSet(tasks) : w.pc = "done"
       \/ \E w \in BagToSet(tasks) : w.pc = "raised"
    /\ IF \E w \in BagToSet(tasks) : w.pc = "raised"
       THEN Finish(Reraised)
       ELSE /\ phase' = "ensure_assistant"
            /\ summary' = <<success_count(tasks), fail_count(files_to_process, tasks)>>
            /\ UNCHANGED <<outcome, CycleLocals, temp_data, error_log, OutsideCycle>>
    /\ tasks' = EmptyBag
    /\ semaphore' = 0
    /\ locked' = FALSE
    /\ UNCHANGED <<file_table, confirmed>>

EnsureAssistantReturn ==
    /\ phase = "ensure_assistant"
    /\ Finish("completed")
    /\ UNCHANGED <<StoreVars, BatchVars>>

EnsureAssistantRaise ==
    /\ phase = "ensure_assistant"
    /\ Finish(Reraised)
    /\ UNCHANGED <<StoreVars, BatchVars>>

(* ---------------------------------------------------------------------- *)
(* SemanticChunker: chunk_text                                             *)
(* ---------------------------------------------------------------------- *)

\* a text is a sequence of characters; a chunk list is a sequence of texts

\* the characters \s matches and str.strip removes
Whitespace == {" ", "\n"}

\* the class [.!?] of the sentence pattern
SentenceEnd == {".", "!", "?"}

\* the class [A-Z] of the sentence pattern
Upper == {"A"}

Greatest(S) == CHOOSE n \in S : \A m \in S : m <= n

Least(S) == CHOOSE n \in S : \A m \in S : n <= m

\* str.strip()
strip(s) ==
    LET black == {i \in 1..Len(s) : s[i] \notin Whitespace}
    IN  IF black = {} THEN << >> ELSE SubSeq(s, Least(black), Greatest(black))

\* the last index of the match of \n\s*\n that starts at i, 0 when none
\* does: \s* is greedy, so the match runs to the last newline of the run of
\* whitespace that starts at i
ParagraphBreakEnd(s, i) ==
    LET ends == {j \in (i + 1)..Len(s) :
                    /\ s[j] = "\n"
                    /\ \A k \in (i + 1)..(j - 1) : s[k] \in Whitespace}
    IN  IF s[i] = "\n" /\ ends # {} THEN Greatest(ends) ELSE 0

\* the last index of the match of (?<=[.!?])\s+(?=[A-Z]) that starts at i,
\* 0 when none does: the whole run of whitespace after a sentence end, and
\* only when an upper-case letter follows the run
SentenceBreakEnd(s, i) ==
    LET runs == {j \in i..Len(s) : \A k \in i..j : s[k] \in Whitespace}
        last == IF runs = {} THEN 0 ELSE Greatest(runs)
    IN  IF /\ i > 1
           /\ s[i - 1] \in SentenceEnd
           /\ last > 0
           /\ last < Len(s)
           /\ s[last + 1] \in Upper
        THEN last ELSE 0

\* the last index of the match of `pattern` that starts at i, 0 when none
BreakEnd(pattern, s, i) ==
    IF pattern = "paragraph" THEN ParagraphBreakEnd(s, i) ELSE SentenceBreakEnd(s, i)

\* re.split on the matches found from left to right; i is the scan
\* position, from the start of the piece being collected
RECURSIVE SplitAt(_, _, _, _)
SplitAt(pattern, s, i, from) ==
    IF i > Len(s) THEN <<SubSeq(s, from, Len(s))>>
    ELSE IF BreakEnd(pattern, s, i) > 0
         THEN <<SubSeq(s, from, i - 1)>>
                  \o SplitAt(pattern, s, BreakEnd(pattern, s, i) + 1,
                             BreakEnd(pattern, s, i) + 1)
         ELSE SplitAt(pattern, s, i + 1, from)

\* [p.strip() for p in pieces if p.strip()]
StripAll(pieces) ==
    LET stripped == [i \in 1..Len(pieces) |-> strip(pieces[i])]
    IN  SelectSeq(stripped, LAMBDA p : p # << >>)

\* _split_by_sentences(text)
split_by_sentences(s) == StripAll(SplitAt("sentence", s, 1, 1))

\* a size test that forgets what the chunk already holds
fits_alone(current_chunk, piece, separator, max) ==
    Len(piece) + Len(separator) <= max

\* a size test that leaves one character of the limit unused
fits_below(current_chunk, piece, separator, max) ==
    Len(current_chunk) + Len(piece) + Len(separator) < max

\* len(current_chunk) + len(piece) + len(separator) <= self.max_chunk_chars
\* (lines 50 and 59)
fits(current_chunk, piece, separator, max) ==
    Len(current_chunk) + Len(piece) + Len(separator) <= max

\* a seal that throws the full chunk away
seal_dropping(done, current_chunk) == done

\* a seal that puts the full chunk in front of the earlier ones
seal_in_front(done, current_chunk) ==
    IF current_chunk # << >> THEN <<strip(current_chunk)>> \o done ELSE done

\* `if current_chunk: chunks.append(current_chunk.strip())`
seal(done, current_chunk) ==
    IF current_chunk # << >> THEN Append(done, strip(current_chunk)) ELSE done

\* one pass of either inner branch (lines 50-55, 59-64): the piece joins the
\* current chunk when it fits, else the current chunk is sealed and the piece
\* starts the next one; acc is <<chunks, current_chunk>>
Pack(acc, piece, separator, max) ==
    IF fits(acc[2], piece, separator, max)
    THEN <<acc[1], acc[2] \o piece \o separator>>
    ELSE <<seal(acc[1], acc[2]), piece \o separator>>

RECURSIVE PackAll(_, _, _, _)
PackAll(acc, pieces, separator, max) ==
    IF pieces = << >> THEN acc
    ELSE PackAll(Pack(acc, Head(pieces), separator, max), Tail(pieces), separator, max)

\* the body of `for para in paragraphs` (lines 41-64); the paragraphs are
\* stripped and the empty ones skipped
RECURSIVE PackParagraphs(_, _, _)
PackParagraphs(acc, paragraphs, max) ==
    IF paragraphs = << >> THEN acc
    ELSE LET para == Head(paragraphs)
             next == IF Len(para) > max
                     THEN PackAll(acc, split_by_sentences(para), <<" ">>, max)
                     ELSE Pack(acc, para, <<"\n", "\n">>, max)
         IN  PackParagraphs(next, Tail(paragraphs), max)

\* chunk_text(text)
chunk_text(s, max) ==
    IF s = << >> \/ strip(s) = << >> THEN << >>
    ELSE LET paragraphs == StripAll(SplitAt("paragraph", strip(s), 1, 1))
             acc == PackParagraphs(<< << >>, << >> >>, paragraphs, max)
         IN  IF strip(acc[2]) # << >> THEN Append(acc[1], strip(acc[2])) ELSE acc[1]

\* the texts handed to chunk_text
Texts(n) == SeqsUpTo(Chars, n)

\* a SemanticChunker(max_chunk_chars) gets one text to chunk
InitChunk ==
    /\ phase = "idle"
    /\ outcome = "none"
    /\ drive_files = << >>
    /\ files_to_process = << >>
    /\ file_table = << >>
    /\ locked = FALSE
    /\ semaphore = 0
    /\ tasks = EmptyBag
    /\ confirmed = {}
    /\ temp_data = {}
    /\ summary = None
    /\ error_log = {}
    /\ text \in Texts(MaxTextLen)
    /\ max_chunk_chars \in 0..MaxChunkChars
    /\ chunks = << >>
    /\ InjectorIdle
    /\ RetryIdle
    /\ MainIdle
    /\ DetailIdle

\* chunk_text(text) returns
ChunkText ==
    /\ chunks = << >>
    /\ chunks' = <<chunk_text(text, max_chunk_chars)>>
    /\ UNCHANGED <<phase, outcome, CycleLocals, StoreVars, BatchVars, temp_data,
                   LogVars, text, max_chunk_chars, InjectorVars, RetryVars, MainVars,
                   DetailVars>>

(* ---------------------------------------------------------------------- *)
(* Metadata injector (utils/metadata_injector.py)                          *)
(* ---------------------------------------------------------------------- *)

\* longest chunk text handed to inject_metadata
MaxRawLen == 2

\* the fields of ChunkMetadata
Fields == {"title", "author", "year", "internal_page_number"}

\* the values a caller puts in the dict: None and strings
NoneValue == [type |-> "NoneType", value |-> << >>]

Str(s) == [type |-> "str", value |-> s]

MetaStrings == {<< >>, <<" ">>, <<"a">>, <<" ", "a">>}

MetaValues == {NoneValue} \cup {Str(s) : s \in MetaStrings}

\* the dicts handed to inject_metadata: any of the fields may be missing
Dicts == UNION {[keys -> MetaValues] : keys \in SUBSET Fields}

\* the default of the four fields
Unknown == <<"Unknown">>

\* the two fixed lines of the block
Rule == "--------------------------------------------------"

Heading == "**SOURCE METADATA FOR FORENSIC EXTRACTION:**"

\* Python's `not v`
Falsy(v) == v.type = "NoneType" \/ v.value = << >>

\* a str field without a validator: the default when the key is missing, the
\* string as it was given, and no value (a validation error) for None
str_field(dict, field) ==
    IF field \notin DOMAIN dict THEN <<Unknown>>
    ELSE IF dict[field].type = "str" THEN <<dict[field].value>>
    ELSE << >>

\* validate_page_number, run before the type check and for the default too
validate_page_number(v) ==
    IF Falsy(v) \/ strip(v.value) = << >> THEN Unknown ELSE strip(v.value)

\* ChunkMetadata(**dict): the validated model, or raised when a field fails
ChunkMetadata(dict) ==
    LET title == str_field(dict, "title")
        author == str_field(dict, "author")
        year == str_field(dict, "year")
        page == IF "internal_page_number" \in DOMAIN dict
                THEN validate_page_number(dict["internal_page_number"])
                ELSE validate_page_number(Str(Unknown))
    IN  IF title = << >> \/ author = << >> \/ year = << >>
        THEN [raised |-> TRUE, title |-> << >>, author |-> << >>, year |-> << >>,
              internal_page_number |-> << >>]
        ELSE [raised |-> FALSE, title |-> title[1], author |-> author[1],
              year |-> year[1], internal_page_number |-> page]

\* a handler that lets the validation error out
except_reraise(meta) == meta

\* `except Exception: validated_meta = ChunkMetadata()`
except_default(meta) == IF meta.raised THEN ChunkMetadata(EmptyDict) ELSE meta

\* a test that takes a whitespace-only text for a chunk
is_empty(raw) == raw = << >>

\* `not raw_chunk_text or not raw_chunk_text.strip()`
is_blank(raw) == raw = << >> \/ strip(raw) = << >>

\* the block appended to the chunk, one element for each character of a
\* value and one for each fixed string
metadata_block(meta) ==
    <<"\n", "\n", Rule, "\n", Heading, "\n">>
        \o <<"Title: ">> \o meta.title \o <<"\n">>
        \o <<"Author: ">> \o meta.author \o <<"\n">>
        \o <<"Year: ">> \o meta.year \o <<"\n">>
        \o <<"Internal Pagination: ">> \o meta.internal_page_number \o <<"\n">>
        \o <<Rule, "\n">>

\* a caller hands a chunk text and a dict to inject_metadata
InitInject ==
    /\ phase = "idle"
    /\ outcome = "none"
    /\ drive_files = << >>
    /\ files_to_process = << >>
    /\ file_table = << >>
    /\ locked = FALSE
    /\ semaphore = 0
    /\ tasks = EmptyBag
    /\ confirmed = {}
    /\ temp_data = {}
    /\ summary = None
    /\ error_log = {}
    /\ text = << >>
    /\ max_chunk_chars = default_max_chunk_chars
    /\ chunks = << >>
    /\ raw_chunk_text \in SeqsUpTo(Chars, MaxRawLen)
    /\ metadata_dict \in Dicts
    /\ inject_outcome = "none"
    /\ enriched_chunk = << >>
    /\ RetryIdle
    /\ MainIdle
    /\ DetailIdle

\* inject_metadata(raw_chunk_text, metadata_dict) returns or raises
InjectMetadata ==
    /\ inject_outcome = "none"
    /\ IF is_blank(raw_chunk_text)
       THEN /\ inject_outcome' = "returned"
            /\ enriched_chunk' = raw_chunk_text
       ELSE LET validated_meta == except_default(ChunkMetadata(metadata_dict))
            IN  IF validated_meta.raised
                THEN /\ inject_outcome' = "raised"
                     /\ enriched_chunk' = << >>
                ELSE /\ inject_outcome' = "returned"
                     /\ enriched_chunk' =
                            strip(raw_chunk_text) \o metadata_block(validated_meta)
    /\ UNCHANGED <<phase, outcome, CycleLocals, StoreVars, BatchVars, temp_data,
                   LogVars, ChunkerVars, raw_chunk_text, metadata_dict, RetryVars,
                   MainVars, DetailVars>>

(* ---------------------------------------------------------------------- *)
(* Retried calls (tenacity decorators of drive_client.py, openai_client.py)*)
(* ---------------------------------------------------------------------- *)

\* the decorated functions start() and its coroutines call
Calls == {"ensure_vector_store", "list_pdfs_in_folder", "download_file",
          "upload_file_to_store"}

\* stop=stop_after_attempt(n)
stop_after_attempt(c) ==
    CASE c = "ensure_vector_store" -> 3
      [] c = "list_pdfs_in_folder" -> 5
      [] c = "download_file" -> 3
      [] c = "upload_file_to_store" -> 5

\* retry=retry_if_exception_type((...))
retry_if_exception_type(c) ==
    CASE c = "ensure_vector_store" -> {"APIConnectionError", "RateLimitError", "APIError"}
      [] c = "list_pdfs_in_folder" -> {"HttpError", "TimeoutError", "ConnectionError"}
      [] c = "download_file" -> {"ClientError", "ConnectionError", "TimeoutError"}
      [] c = "upload_file_to_store" -> {"APIConnectionError", "RateLimitError"}

\* reraise=True is given for the two Drive calls only
reraise(c) == c \in {"list_pdfs_in_folder", "download_file"}

\* the exceptions an attempt can raise: those the decorator names, subclasses
\* of them, and others (a missing folder id, a file that is not there, a
\* rejected key, an error of the disk)
Raisable(c) ==
    CASE c = "ensure_vector_store" ->
            {"APIConnectionError", "RateLimitError", "AuthenticationError", "TypeError"}
      [] c = "list_pdfs_in_folder" ->
            {"HttpError", "TimeoutError", "ConnectionError", "ValueError"}
      [] c = "download_file" ->
            {"ClientResponseError", "ConnectionError", "TimeoutError", "OSError"}
      [] c = "upload_file_to_store" ->
            {"APIConnectionError", "APITimeoutError", "RateLimitError",
             "AuthenticationError", "FileNotFoundError"}

\* the base class of an exception class
Base(class) ==
    CASE class = "ClientResponseError" -> "ClientError"
      [] class = "APITimeoutError" -> "APIConnectionError"
      [] class = "APIConnectionError" -> "APIError"
      [] class \in {"RateLimitError", "AuthenticationError"} -> "APIStatusError"
      [] class = "APIStatusError" -> "APIError"
      [] class \in {"ConnectionError", "TimeoutError", "FileNotFoundError"} -> "OSError"
      [] OTHER -> "Exception"

RECURSIVE isinstance(_, _)
isinstance(class, types) ==
    \/ class \in types
    \/ class # "Exception" /\ isinstance(Base(class), types)

\* a decorator that retries whatever was raised
retry_always(c, class) == TRUE

\* tenacity retries when the predicate of the decorator accepts the exception
should_retry(c, class) == isinstance(class, retry_if_exception_type(c))

\* one of the decorated functions is called
InitRetry ==
    /\ phase = "idle"
    /\ outcome = "none"
    /\ drive_files = << >>
    /\ files_to_process = << >>
    /\ file_table = << >>
    /\ locked = FALSE
    /\ semaphore = 0
    /\ tasks = EmptyBag
    /\ confirmed = {}
    /\ temp_data = {}
    /\ summary = None
    /\ error_log = {}
    /\ text = << >>
    /\ max_chunk_chars = default_max_chunk_chars
    /\ chunks = << >>
    /\ InjectorIdle
    /\ MainIdle
    /\ DetailIdle
    /\ call \in Calls
    /\ attempts = << >>
    /\ call_state = "attempting"
    /\ surfaced = None
    /\ handled = "none"

NotRetry == <<phase, outcome, CycleLocals, StoreVars, BatchVars, temp_data, LogVars,
              ChunkerVars, InjectorVars, MainVars, DetailVars>>

\* the attempt returns: the decorated call returns its value
AttemptReturn ==
    /\ call_state = "attempting"
    /\ call_state' = "returned"
    /\ UNCHANGED <<call, attempts, surfaced, handled, NotRetry>>

\* the attempt raises: an exception the decorator does not name leaves the
\* call as it is; one it names is followed by a wait and another attempt,
\* unless this was the last attempt, which leaves the call with the exception
\* itself (reraise=True) or with a RetryError
AttemptRaise ==
    /\ call_state = "attempting"
    /\ \E class \in Raisable(call) :
          /\ attempts' = Append(attempts, class)
          /\ IF ~should_retry(call, class)
             THEN call_state' = "raised" /\ surfaced' = class
             ELSE IF Len(attempts') >= stop_after_attempt(call)
             THEN /\ call_state' = "raised"
                  /\ surfaced' = IF reraise(call) THEN class ELSE "RetryError"
             ELSE call_state' = "attempting" /\ surfaced' = None
    /\ UNCHANGED <<call, handled, NotRetry>>

\* the caller's handler: the coroutine of a document returns False for a
\* download or an upload that raised, start() raises for a setup or a listing
\* that raised
CallerExcept ==
    /\ call_state = "raised"
    /\ handled = "none"
    /\ handled' = IF call \in {"download_file", "upload_file_to_store"}
                  THEN ExceptHandler(Worker(GateListing[1])).result
                  ELSE Reraised
    /\ UNCHANGED <<call, attempts, call_state, surfaced, NotRetry>>

(* ---------------------------------------------------------------------- *)
(* The entry point (main.py)                                               *)
(* ---------------------------------------------------------------------- *)

\* what an earlier run left in the TinyDB file: at most one record per id
StoredTables ==
    {table \in SeqsUpTo({Record([id |-> id, name |-> name, md5Checksum |-> checksum]) :
                            id \in Ids, name \in Names, checksum \in Checksums}, MaxFiles) :
        \A i, j \in 1..Len(table) : table[i].file_id = table[j].file_id => i = j}

\* what an earlier run that was killed left in TEMP_DIR
StoredPaths ==
    UNION {{local_path(file), processed_path(file)} :
              file \in {[id |-> "a", name |-> name, md5Checksum |-> "x"] : name \in Names}}

\* main() is called: nothing of the engine exists yet
InitMain ==
    /\ phase = "idle"
    /\ outcome = "none"
    /\ drive_files = << >>
    /\ files_to_process = << >>
    /\ file_table \in StoredTables
    /\ locked = FALSE
    /\ semaphore = 0
    /\ tasks = EmptyBag
    /\ confirmed = {}
    /\ temp_data \in SUBSET StoredPaths
    /\ summary = None
    /\ error_log = {}
    /\ text = << >>
    /\ max_chunk_chars = default_max_chunk_chars
    /\ chunks = << >>
    /\ InjectorIdle
    /\ RetryIdle
    /\ DetailIdle
    /\ main_pc = "SyncEngine"
    /\ success_logged = FALSE
    /\ exit_status = << >>

EngineVars == <<phase, outcome, CycleLocals, StoreVars, BatchVars, LogVars,
                ChunkerVars, InjectorVars, RetryVars, DetailVars>>

\* line 28: SyncEngine() returns; its __init__ ends with _prepare_temp_dir
MainEngineReturn ==
    /\ main_pc = "SyncEngine"
    /\ main_pc' = "start"
    /\ temp_data' = prepare_temp_dir(temp_data)
    /\ UNCHANGED <<success_logged, exit_status, EngineVars>>

\* line 28: SyncEngine() raises (a client that cannot be built);
\* `except Exception` logs and exits with 1
MainEngineRaise ==
    /\ main_pc = "SyncEngine"
    /\ main_pc' = "exited"
    /\ exit_status' = <<1>>
    /\ UNCHANGED <<success_logged, temp_data, EngineVars>>

\* line 35: engine.start() is called without await or event loop: the call
\* makes a coroutine object and returns, no statement of start() runs
MainCallStart ==
    /\ main_pc = "start"
    /\ main_pc' = "success"
    /\ UNCHANGED <<success_logged, exit_status, temp_data, EngineVars>>

\* line 40: logger.success("System finished successfully ...")
MainLogSuccess ==
    /\ main_pc = "success"
    /\ main_pc' = "exit"
    /\ success_logged' = TRUE
    /\ UNCHANGED <<exit_status, temp_data, EngineVars>>

\* line 42: sys.exit(0)
MainExit ==
    /\ main_pc = "exit"
    /\ main_pc' = "exited"
    /\ exit_status' = <<0>>
    /\ UNCHANGED <<success_logged, temp_data, EngineVars>>

\* Ctrl+C at any statement of the try: `except KeyboardInterrupt` exits with 0
MainKeyboardInterrupt ==
    /\ main_pc \in {"SyncEngine", "start", "success", "exit"}
    /\ main_pc' = "exited"
    /\ exit_status' = <<0>>
    /\ UNCHANGED <<success_logged, temp_data, EngineVars>>

(* ---------------------------------------------------------------------- *)
(* The comparator loop, one lookup at a time (sync_engine.py:111-131)      *)
(* ---------------------------------------------------------------------- *)

\* check_file_status of the next listed file enters `async with self.lock`
CheckFileStatusAcquire ==
    /\ phase = "compare"
    /\ lookups < Len(drive_files)
    /\ LockFree(locked)
    /\ locked' = TRUE
    /\ UNCHANGED <<phase, outcome, CycleLocals, file_table, confirmed, BatchVars,
                   temp_data, LogVars, ChunkerVars, InjectorVars, RetryVars, MainVars,
                   processing_queue, lookups, lock_object, locks_made, callers,
                   extracted_pages, final_document_text>>

\* the get returns and the lock is given back; lines 121-129 append the file
\* to processing_queue or skip it
CheckFileStatusReturn ==
    /\ phase = "compare"
    /\ lookups < Len(drive_files)
    /\ locked
    /\ locked' = FALSE
    /\ lookups' = lookups + 1
    /\ processing_queue' =
          IF needs_processing(file_table, drive_files[lookups + 1])
          THEN Append(processing_queue, drive_files[lookups + 1])
          ELSE processing_queue
    /\ UNCHANGED <<phase, outcome, CycleLocals, file_table, confirmed, BatchVars,
                   temp_data, LogVars, ChunkerVars, InjectorVars, RetryVars, MainVars,
                   lock_object, locks_made, callers, extracted_pages,
                   final_document_text>>

\* line 131 returns the queue; lines 81-85: an empty queue skips the batch,
\* otherwise _process_file_batch creates the semaphore and the coroutines
GetFilesToProcessReturn ==
    /\ phase = "compare"
    /\ lookups = Len(drive_files)
    /\ ~locked
    /\ files_to_process' = processing_queue
    /\ IF processing_queue = << >>
       THEN /\ phase' = "ensure_assistant"
            /\ UNCHANGED BatchVars
       ELSE /\ phase' = "batch"
            /\ semaphore' = max_concurrent_tasks
            /\ tasks' = BagOfWorkers(processing_queue)
    /\ processing_queue' = << >>
    /\ lookups' = 0
    /\ UNCHANGED <<outcome, drive_files, StoreVars, temp_data, LogVars, ChunkerVars,
                   InjectorVars, RetryVars, MainVars, lock_object, locks_made, callers,
                   extracted_pages, final_document_text>>

(* ---------------------------------------------------------------------- *)
(* The lock property of one DBManager (db_manager.py:21-31)                *)
(* ---------------------------------------------------------------------- *)

\* coroutines that call the store of one DBManager at the same time
MaxCallers == 3

\* a property that makes a new Lock at every access
lock_fresh(current, made) == made + 1

\* `if self._lock is None: self._lock = asyncio.Lock()`, `return self._lock`:
\* the number of the Lock that self._lock holds after the access
lock_property(current, made) == IF current = 0 THEN made + 1 ELSE current

\* the coroutines have called check_file_status or mark_file_as_processed of
\* a new DBManager and none has run its first statement yet
InitStore ==
    /\ phase = "idle"
    /\ outcome = "none"
    /\ drive_files = << >>
    /\ files_to_process = << >>
    /\ file_table = << >>
    /\ locked = FALSE
    /\ semaphore = 0
    /\ tasks = EmptyBag
    /\ confirmed = {}
    /\ temp_data = {}
    /\ summary = None
    /\ error_log = {}
    /\ text = << >>
    /\ max_chunk_chars = default_max_chunk_chars
    /\ chunks = << >>
    /\ InjectorIdle
    /\ RetryIdle
    /\ MainIdle
    /\ processing_queue = << >>
    /\ lookups = 0
    /\ lock_object = 0
    /\ locks_made = 0
    /\ callers \in [1..MaxCallers ->
                      [op : {"check_file_status", "mark_file_as_processed"},
                       file_id : Ids, pc : {"called"}, lock : {0}]]
    /\ extracted_pages = << >>
    /\ final_document_text = << >>

NotStore == <<phase, outcome, CycleLocals, confirmed, BatchVars, temp_data, LogVars,
              ChunkerVars, InjectorVars, RetryVars, MainVars, processing_queue, lookups,
              extracted_pages, final_document_text>>

\* `async with self.lock` evaluates the property: lines 29-31 hold no await
\* and run on the event loop's thread, so the access is one step
LockAccess ==
    \E c \in 1..Len(callers) :
        /\ callers[c].pc = "called"
        /\ lock_object' = lock_property(lock_object, locks_made)
        /\ locks_made' = IF lock_object' = lock_object THEN locks_made ELSE locks_made + 1
        /\ callers' = [callers EXCEPT ![c].pc = "waiting", ![c].lock = lock_object']
        /\ UNCHANGED <<file_table, locked, NotStore>>

\* Lock.acquire of the Lock the caller got returns when no coroutine holds it
LockAcquire ==
    \E c \in 1..Len(callers) :
        /\ callers[c].pc = "waiting"
        /\ \A d \in 1..Len(callers) :
              callers[d].pc = "holding" => callers[d].lock # callers[c].lock
        /\ callers' = [callers EXCEPT ![c].pc = "holding"]
        /\ locked' = TRUE
        /\ UNCHANGED <<file_table, lock_object, locks_made, NotStore>>

\* the get or the upsert returns or raises in its thread and the caller
\* leaves `async with`
LockedCallReturn ==
    \E c \in 1..Len(callers) : \E raised \in BOOLEAN :
        /\ callers[c].pc = "holding"
        /\ file_table' =
              IF callers[c].op = "mark_file_as_processed" /\ ~raised
              THEN mark_file_as_processed(file_table,
                      [id |-> callers[c].file_id, name |-> <<"r">>, md5Checksum |-> "x"])
              ELSE file_table
        /\ callers' = [callers EXCEPT ![c].pc = "returned"]
        /\ locked' = \E d \in 1..Len(callers) : d # c /\ callers[d].pc = "holding"
        /\ UNCHANGED <<lock_object, locks_made, NotStore>>

(* ---------------------------------------------------------------------- *)
(* The payload of one document (sync_engine.py:207-234)                    *)
(* ---------------------------------------------------------------------- *)

\* pages of an extracted document
MaxPages == 2

\* the page texts of _process_pdf_blocks: the blocks kept of a page joined,
\* the empty string for a page without a text block that is long enough
PageTexts == {<< >>, <<"a">>}

\* the lists extract_document returns: none for a PDF without pages
ExtractedPages ==
    SeqsUpTo([text : PageTexts, internal_page_number : {Unknown}], MaxPages)

\* a helper that leaves no file for an empty content
write_text_file_nonempty(files, file_path, content) ==
    IF content = << >> THEN files ELSE files \cup {file_path}

\* _write_text_file: open(file_path, 'w') makes the file, whatever is written
write_text_file(files, file_path, content) == files \cup {file_path}

\* lines 219-225: the dict of a chunk; _parse_filename_metadata gives the
\* year and the author "Unknown" for a name without " - "
chunk_meta(file, page) ==
    [title |-> Str(file.name), author |-> Str(Unknown), year |-> Str(Unknown),
     internal_page_number |-> Str(page.internal_page_number)]

\* inject_metadata(raw_chunk_text, metadata_dict) for a dict it accepts
inject_metadata(raw, dict) ==
    IF is_blank(raw) THEN raw
    ELSE strip(raw) \o metadata_block(except_default(ChunkMetadata(dict)))

\* lines 218-227: the enriched chunks of one page
enriched_chunks(file, page) ==
    LET page_chunks == chunk_text(page.text, default_max_chunk_chars)
    IN  [i \in 1..Len(page_chunks) |-> inject_metadata(page_chunks[i], chunk_meta(file, page))]

\* lines 214-227: final_text_blocks after the loop over the pages
RECURSIVE final_text_blocks(_, _)
final_text_blocks(file, pages) ==
    IF pages = << >> THEN << >>
    ELSE enriched_chunks(file, Head(pages)) \o final_text_blocks(file, Tail(pages))

\* "\n\n".join(final_text_blocks)
RECURSIVE join_blocks(_)
join_blocks(blocks) ==
    IF blocks = << >> THEN << >>
    ELSE IF Len(blocks) = 1 THEN Head(blocks)
    ELSE Head(blocks) \o <<"\n", "\n">> \o join_blocks(Tail(blocks))

NotPayload == <<ChunkerVars, InjectorVars, RetryVars, MainVars, processing_queue,
                lookups, lock_object, locks_made, callers>>

\* a folder tree with one document
ListPdfsReturnOne == ListPdfsReturnFrom(Listings(1))

\* lines 196-203: the download returned the path of its file
DownloadReturn ==
    /\ phase = "batch"
    /\ \E w \in BagToSet(tasks) :
          /\ w.pc = "Downloading"
          /\ tasks' = Replace(tasks, w, [w EXCEPT !.pc = NextStage(w.pc)])
          /\ temp_data' = temp_data \cup {local_path(w.file)}
    /\ UNCHANGED <<phase, outcome, CycleLocals, StoreVars, semaphore, LogVars,
                   OutsideCycle>>

\* line 210: extract_document found the file and returned its pages
ExtractDocumentReturn ==
    /\ phase = "batch"
    /\ \E w \in BagToSet(tasks), pages \in ExtractedPages :
          /\ w.pc = "Extracting"
          /\ local_path(w.file) \in temp_data
          /\ tasks' = Replace(tasks, w, [w EXCEPT !.pc = NextStage(w.pc)])
          /\ extracted_pages' = <<pages>>
    /\ final_document_text' = << >>
    /\ UNCHANGED <<phase, outcome, CycleLocals, StoreVars, semaphore, temp_data,
                   LogVars, NotPayload>>

\* lines 213-234: the chunks of every page are enriched and joined, and
\* _write_text_file wrote the text to the processed path
WriteTextFileReturn ==
    /\ phase = "batch"
    /\ \E w \in BagToSet(tasks) :
          /\ w.pc = "Chunking"
          /\ extracted_pages # << >>
          /\ LET content == join_blocks(final_text_blocks(w.file, extracted_pages[1]))
             IN  /\ final_document_text' = <<content>>
                 /\ temp_data' = write_text_file(temp_data, processed_path(w.file), content)
          /\ tasks' = Replace(tasks, w, [w EXCEPT !.pc = NextStage(w.pc)])
    /\ UNCHANGED <<phase, outcome, CycleLocals, StoreVars, semaphore, LogVars,
                   extracted_pages, NotPayload>>

(* ---------------------------------------------------------------------- *)
(* Specifications                                                          *)
(* ---------------------------------------------------------------------- *)

\* the state after SyncEngine() was constructed: __init__ ends with
\* _prepare_temp_dir (line 51); SemanticChunker() has its default size
Init ==
    /\ phase = "idle"
    /\ outcome = "none"
    /\ drive_files = << >>
    /\ files_to_process = << >>
    /\ file_table = << >>
    /\ locked = FALSE
    /\ semaphore = 0
    /\ tasks = EmptyBag
    /\ confirmed = {}
    /\ temp_data = prepare_temp_dir({})
    /\ summary = None
    /\ error_log = {}
    /\ text = << >>
    /\ max_chunk_chars = default_max_chunk_chars
    /\ chunks = << >>
    /\ InjectorIdle
    /\ RetryIdle
    /\ MainIdle
    /\ DetailIdle

Next ==
    \/ StartCycle
    \/ EnsureVectorStoreReturn
    \/ EnsureVectorStoreRaise
    \/ ListPdfsReturn
    \/ ListPdfsRaise
    \/ Compare
    \/ AcquireSlot
    \/ StageReturn
    \/ StageRaise
    \/ UploadReturn
    \/ AcquireLock
    \/ UpsertReturn
    \/ UpsertRaise
    \/ GatherReturn
    \/ EnsureAssistantReturn
    \/ EnsureAssistantRaise

Spec == Init /\ [][Next]_vars

\* The cycles of SpecGate list GateListing: the batch creates more coroutines
\* than max_concurrent_tasks.
NextGate ==
    \/ StartCycle
    \/ EnsureVectorStoreReturn
    \/ EnsureVectorStoreRaise
    \/ ListPdfsReturnGate
    \/ ListPdfsRaise
    \/ Compare
    \/ AcquireSlot
    \/ StageReturn
    \/ StageRaise
    \/ UploadReturn
    \/ AcquireLock
    \/ UpsertReturn
    \/ UpsertRaise
    \/ GatherReturn
    \/ EnsureAssistantReturn
    \/ EnsureAssistantRaise

SpecGate == Init /\ [][NextGate]_vars

\* a step of a cycle that has started: an await of start() or of one of its
\* coroutines returns or raises, or a waiting coroutine gets the slot or the
\* lock that is free
CycleStep ==
    \/ EnsureVectorStoreReturn
    \/ EnsureVectorStoreRaise
    \/ ListPdfsReturnGate
    \/ ListPdfsRaise
    \/ Compare
    \/ AcquireSlot
    \/ StageReturn
    \/ StageRaise
    \/ UploadReturn
    \/ AcquireLock
    \/ UpsertReturn
    \/ UpsertRaise
    \/ GatherReturn
    \/ EnsureAssistantReturn
    \/ EnsureAssistantRaise

\* SpecGate with an event loop that keeps running what is ready, and
\* collaborators that answer every call: a step that stays possible is taken.
\* Nothing makes the caller start another cycle.
SpecGateFair == Init /\ [][NextGate]_vars /\ WF_vars(CycleStep)

\* the cycle over folder trees whose documents may share a name
NextScratch ==
    \/ StartCycle
    \/ EnsureVectorStoreReturn
    \/ EnsureVectorStoreRaise
    \/ ListPdfsReturnNamed
    \/ ListPdfsRaise
    \/ Compare
    \/ AcquireSlot
    \/ StageReturn
    \/ StageRaise
    \/ UploadReturn
    \/ AcquireLock
    \/ UpsertReturn
    \/ UpsertRaise
    \/ GatherReturn
    \/ EnsureAssistantReturn
    \/ EnsureAssistantRaise

SpecScratch == Init /\ [][NextScratch]_vars

NextChunk == ChunkText

\* chunk_text applied to every short text under every small chunk size
SpecChunk == InitChunk /\ [][NextChunk]_vars

NextInject == InjectMetadata

\* inject_metadata alone, over all chunk texts and dicts
SpecInject == InitInject /\ [][NextInject]_vars

NextRetry ==
    \/ AttemptReturn
    \/ AttemptRaise
    \/ CallerExcept

\* one decorated call with whatever its attempts return or raise
SpecRetry == InitRetry /\ [][NextRetry]_vars

NextMain ==
    \/ MainEngineReturn
    \/ MainEngineRaise
    \/ MainCallStart
    \/ MainLogSuccess
    \/ MainExit
    \/ MainKeyboardInterrupt

\* one run of the program from main()
SpecMain == InitMain /\ [][NextMain]_vars

\* the cycle with the comparator loop taken one lookup at a time
NextCompare ==
    \/ StartCycle
    \/ EnsureVectorStoreReturn
    \/ EnsureVectorStoreRaise
    \/ ListPdfsReturn
    \/ ListPdfsRaise
    \/ CheckFileStatusAcquire
    \/ CheckFileStatusReturn
    \/ GetFilesToProcessReturn
    \/ AcquireSlot
    \/ StageReturn
    \/ StageRaise
    \/ UploadReturn
    \/ AcquireLock
    \/ UpsertReturn
    \/ UpsertRaise
    \/ GatherReturn
    \/ EnsureAssistantReturn
    \/ EnsureAssistantRaise

SpecCompare == Init /\ [][NextCompare]_vars

NextStore ==
    \/ LockAccess
    \/ LockAcquire
    \/ LockedCallReturn

\* concurrent calls of the store of one new DBManager
SpecStore == InitStore /\ [][NextStore]_vars

\* The cycles of SpecPayload list one document and follow its pages and its
\* processed text through the coroutine.
NextPayload ==
    \/ StartCycle
    \/ EnsureVectorStoreReturn
    \/ EnsureVectorStoreRaise
    \/ ListPdfsReturnOne
    \/ ListPdfsRaise
    \/ Compare
    \/ AcquireSlot
    \/ DownloadReturn
    \/ ExtractDocumentReturn
    \/ WriteTextFileReturn
    \/ StageRaise
    \/ UploadReturn
    \/ AcquireLock
    \/ UpsertReturn
    \/ UpsertRaise
    \/ GatherReturn
    \/ EnsureAssistantReturn
    \/ EnsureAssistantRaise

SpecPayload == Init /\ [][NextPayload]_vars

(* ---------------------------------------------------------------------- *)
(* Claims                                                                  *)
(* ---------------------------------------------------------------------- *)

Workers == BagToSet(tasks)

Recorded(w) == w.pc = "done" /\ w.result = "True"

Failed(w) == w.pc = "done" /\ w.result = "False"

\* the step replaces coroutine w by v and leaves every other one alone
Moves(w, v) == w # v /\ tasks' = Replace(tasks, w, v)

HasRecord(table, id, checksum) ==
    \E i \in 1..Len(table) : table[i].file_id = id /\ table[i].checksum = checksum

\* C1: the table is written only by a coroutine that stands in the upsert
\* after its own upload returned a truthy status, and that write is the step
\* in which it returns True; a coroutine that leaves download, extraction,
\* chunking/write or upload through an exception or a falsy upload status
\* returns False in a step that does not write the table.
C1_CommitOnlyAfterUpload ==
    [][ /\ \A w \in Workers :
              w.pc \in {"Committing", "Upserting"} => w.upload_status = "upload_success"
        /\ file_table' # file_table =>
              \E w \in Workers :
                  /\ w.pc = "Upserting"
                  /\ w.upload_status = "upload_success"
                  /\ \E v \in BagToSet(tasks') : Moves(w, v) /\ Recorded(v)
        /\ \A w \in Workers : \A v \in BagToSet(tasks') :
              (w.pc \in Stages /\ v.pc = "done" /\ Moves(w, v)) =>
                  (v.result = "False" /\ file_table' = file_table)
      ]_vars

\* one coroutine recorded its document while a sibling that failed left no
\* record of its own
C1_Witness ==
    /\ phase = "batch"
    /\ \E w \in Workers : Recorded(w)
    /\ \E v \in Workers : Failed(v) /\ Matching(file_table, v.file.id) = {}

\* C2: every record of the table carries a checksum under which that
\* document's upload was confirmed in some cycle, and a coroutine that
\* returns True leaves its document recorded under the checksum of its own
\* listing entry, whatever was recorded before.
C2_ChecksumOfConfirmedVersion ==
    [][ /\ \A i \in 1..Len(file_table') :
              <<file_table'[i].file_id, file_table'[i].checksum>> \in confirmed'
        /\ \A w \in Workers : \A v \in BagToSet(tasks') :
              (w.pc = "Upserting" /\ Recorded(v) /\ Moves(w, v)) =>
                  /\ HasRecord(file_table', w.file.id, w.file.md5Checksum)
                  /\ \A c \in Checksums \ {w.file.md5Checksum} :
                        ~HasRecord(file_table', w.file.id, c)
      ]_vars

\* a modified document was ingested again: its record now holds the second
\* confirmed checksum
C2_Witness ==
    \E w \in Workers :
        /\ Recorded(w)
        /\ HasRecord(file_table, w.file.id, w.file.md5Checksum)
        /\ \E c \in Checksums \ {w.file.md5Checksum} : <<w.file.id, c>> \in confirmed

\* C3: the table holds at most one record per document id.
C3_OneRecordPerId ==
    \A i, j \in 1..Len(file_table) :
        file_table[i].file_id = file_table[j].file_id => i = j

\* two coroutines of one batch upserted the same id, and another id is
\* recorded as well
C3_Witness ==
    /\ \E w \in Workers : Recorded(w) /\ CopiesIn(w, tasks) >= 2
    /\ Len(file_table) = 2

\* what the comparator is to return for a listing: the entries without a
\* record for their id, or with a record under another checksum, in listing
\* order
Stale(table, file) ==
    \/ \A i \in 1..Len(table) : table[i].file_id # file.id
    \/ \E i \in 1..Len(table) :
          table[i].file_id = file.id /\ table[i].checksum # file.md5Checksum

StaleEntries(table, files) == SelectSeq(files, LAMBDA file : Stale(table, file))

\* C4: for every listing and every table the program reaches, the comparator
\* returns exactly the new and the modified entries in listing order, and the
\* queue start() goes on with is that result for its own listing.  (Every
\* listing is drawn in phase "compare" over every table the program reaches;
\* the table is as the comparator read it until a coroutine leaves
\* Discovered.)
C4_QueueIsNewOrModified ==
    /\ phase = "compare" =>
          get_files_to_process(file_table, drive_files) = StaleEntries(file_table, drive_files)
    /\ (phase = "batch" /\ \A w \in Workers : w.pc = "Discovered") =>
          files_to_process = StaleEntries(file_table, drive_files)
    /\ (phase = "ensure_assistant" /\ files_to_process = << >>) =>
          StaleEntries(file_table, drive_files) = << >>

\* the comparator kept one entry and dropped the other
C4_Witness ==
    /\ phase = "batch"
    /\ Len(drive_files) = 2
    /\ Len(files_to_process) = 1
    /\ files_to_process[1] = drive_files[2]
    /\ file_table # << >>

UpToDate(table, file) == HasRecord(table, file.id, file.md5Checksum)

\* C5: the batch holds a coroutine only for documents the comparator found
\* stale: no coroutine is created for an entry whose stored checksum equals
\* the remote one when the queue is computed, none is created later in the
\* cycle, and a listing of unchanged entries starts no batch at all.
C5_UnchangedNeverProcessed ==
    [][ /\ phase = "compare" =>
              /\ \A i \in 1..Len(drive_files) :
                    UpToDate(file_table, drive_files[i]) =>
                        \A v \in BagToSet(tasks') : v.file.id # drive_files[i].id
              /\ (\A i \in 1..Len(drive_files) : UpToDate(file_table, drive_files[i])) =>
                    (tasks' = EmptyBag /\ phase' = "ensure_assistant")
        /\ phase # "compare" =>
              {v.file : v \in BagToSet(tasks')} \subseteq {w.file : w \in Workers}
        /\ file_table' # file_table =>
              \E w \in Workers : HasRecord(file_table', w.file.id, w.file.md5Checksum)
      ]_vars

\* a cycle over a listing of unchanged documents went past the comparison
\* without a batch
C5_Witness ==
    /\ phase = "ensure_assistant"
    /\ Len(drive_files) = 2
    /\ drive_files[1].id # drive_files[2].id
    /\ files_to_process = << >>
    /\ \A i \in 1..Len(drive_files) : UpToDate(file_table, drive_files[i])

AllRecorded == tasks # EmptyBag /\ \A w \in Workers : Recorded(w)

\* C6: when every coroutine of the batch has returned True, the comparator
\* run again on the same listing returns the empty queue.
C6_RerunAfterSuccessIsEmpty ==
    (phase = "batch" /\ AllRecorded) =>
        get_files_to_process(file_table, drive_files) = << >>

\* the scenario of the specification: listing [a:x], queue [a:x], table {a:x}
C6_Witness ==
    /\ phase = "batch"
    /\ AllRecorded
    /\ drive_files = <<[id |-> "a", name |-> <<"r">>, md5Checksum |-> "x"]>>
    /\ files_to_process = drive_files
    /\ file_table = <<Record(drive_files[1])>>

\* every entry of the listing but those of document id is recorded under
\* its checksum, and document id is recorded under another checksum: the
\* listing is one whose entries were all recorded, with the checksum of
\* document id changed since
OnlyChanged(table, files, id) ==
    /\ \E i \in 1..Len(files) : files[i].id = id
    /\ \A i \in 1..Len(files) :
          IF files[i].id = id
          THEN \E c \in Checksums \ {files[i].md5Checksum} : HasRecord(table, id, c)
          ELSE UpToDate(table, files[i])

\* C7: for every listing whose entries were all recorded under their
\* checksum and in which the checksum of exactly one document has changed
\* since, the comparator returns the entries of that document and nothing
\* else.
C7_ChecksumSensitivity ==
    phase = "compare" =>
        \A id \in Ids :
            OnlyChanged(file_table, drive_files, id) =>
                get_files_to_process(file_table, drive_files) =
                    SelectSeq(drive_files, LAMBDA file : file.id = id)

\* both documents were recorded, then the first one changed: the comparator
\* is about to run on that listing
C7_Witness ==
    /\ phase = "compare"
    /\ Len(drive_files) = 2
    /\ drive_files[1].id # drive_files[2].id
    /\ OnlyChanged(file_table, drive_files, drive_files[1].id)
    /\ get_files_to_process(file_table, drive_files) = <<drive_files[1]>>

NonTerminal == {"Discovered"} \cup Slotted

\* C8 as stated: at most max_concurrent_tasks coroutines are in a state other
\* than Recorded or Failed.
C8_NonTerminalAtMostLimit ==
    CountPc(tasks, NonTerminal) <= max_concurrent_tasks

\* C8: at most max_concurrent_tasks coroutines are between Downloading and
\* the end of the checksum commit at any time; the coroutines still in
\* Discovered, which wait for a slot, are not bounded by the limit.
C8_StartedNonTerminalAtMostLimit ==
    CountPc(tasks, Slotted) <= max_concurrent_tasks

\* the limit is reached while more coroutines wait in Discovered, so that
\* more than max_concurrent_tasks are non-terminal
C8_Witness ==
    /\ CountPc(tasks, Slotted) = max_concurrent_tasks
    /\ CountPc(tasks, {"Discovered"}) >= 1
    /\ CountPc(tasks, {"Upserting"}) = 1

\* C9: the slots handed out and the slots left always add up to
\* max_concurrent_tasks, none is handed out when none is left, and while no
\* slot is left no waiting coroutine begins its download.
C9_SlotsBoundAdmission ==
    [][ /\ semaphore >= 0
        /\ phase = "batch" =>
              semaphore + CountPc(tasks, Slotted) = max_concurrent_tasks
        /\ (phase = "batch" /\ semaphore = 0) =>
              /\ CountPc(tasks', {"Discovered"}) = CountPc(tasks, {"Discovered"})
              /\ \A v \in BagToSet(tasks') :
                    v.pc = "Downloading" => CopiesIn(v, tasks') <= CopiesIn(v, tasks)
      ]_vars

\* every slot is taken and a coroutine waits at the gate
C9_Witness ==
    /\ phase = "batch"
    /\ semaphore = 0
    /\ CountPc(tasks, {"Discovered"}) >= 1
    /\ CountPc(tasks, {"Uploading", "Committing", "Upserting"}) >= 1

\* C10: a step of the batch changes one coroutine and leaves its siblings as
\* they are, no coroutine ends in any state but Recorded or Failed, and the
\* batch ends only when every coroutine is terminal, by returning to start().
C10_FailureLeavesSiblingsAlone ==
    [][ phase = "batch" =>
          /\ \A w \in Workers : w.pc \in NonTerminal \cup {"done"}
          /\ phase' = "batch" =>
                \E w \in Workers : \E v \in BagToSet(tasks') :
                    v.file = w.file /\ w.pc # "done" /\ Moves(w, v)
          /\ phase' # "batch" =>
                /\ \A w \in Workers : w.pc = "done"
                /\ phase' = "ensure_assistant"
                /\ outcome' = outcome
      ]_vars

\* one document failed while the other was recorded, and the batch is about
\* to return
C10_Witness ==
    /\ phase = "batch"
    /\ \A w \in Workers : w.pc = "done"
    /\ \E w, v \in Workers : Failed(w) /\ Recorded(v) /\ w.file.id # v.file.id

\* C11: from the await of ensure_vector_store and from the await of the
\* remote listing no coroutine of a batch exists and the scratch directory is
\* empty; a step that ends the cycle from there (the await raised) starts no
\* coroutine, leaves the table as it was, ends start() by raising and leaves
\* the scratch directory empty.
C11_SetupFailureAborts ==
    [][ (phase \in {"ensure_vector_store", "list_pdfs"}) =>
          ( /\ tasks = EmptyBag
            /\ tasks' = EmptyBag
            /\ phase' \in {"list_pdfs", "compare", "idle"}
            /\ (phase' = "idle") =>
                  ( /\ outcome' = "raised"
                    /\ file_table' = file_table
                    /\ temp_data' = {} ) )
      ]_vars

\* a later cycle stands at the remote listing with a record in the table
C11_Witness ==
    /\ phase = "list_pdfs"
    /\ file_table # << >>
    /\ ENABLED ListPdfsRaise

CountRecorded ==
    BagCardinality([w \in {v \in Workers : Recorded(v)} |-> tasks[w]])

InQueue(queue, file) == \E i \in 1..Len(queue) : queue[i] = file

\* C12 as stated: whenever a coroutine has returned False, the record of its
\* id is still absent or stale as it was when the queue was computed, the
\* comparator run on the same listing selects its document again, and the
\* batch summary counts only coroutines that returned True as successes.
C12_FailedKeepsRecord ==
    [][ /\ \A w \in Workers :
              Failed(w) =>
                  /\ Stale(file_table, w.file)
                  /\ InQueue(get_files_to_process(file_table, drive_files), w.file)
        /\ (phase = "batch" /\ phase' = "ensure_assistant") =>
              summary'[1] = CountRecorded
      ]_vars

\* C12: the step in which a coroutine returns False (from any stage or from a
\* raised upsert) leaves the table as it was; as long as no coroutine of the
\* batch has recorded the same id, the record of that id is still absent or
\* stale and the comparator run on the same listing selects the document
\* again; the batch summary counts only coroutines that returned True as
\* successes.
C12_FailedWorkerWritesNothing ==
    [][ /\ \A w \in Workers : \A v \in BagToSet(tasks') :
              (Moves(w, v) /\ Failed(v)) => file_table' = file_table
        /\ \A w \in Workers :
              (Failed(w) /\ ~\E u \in Workers : Recorded(u) /\ u.file.id = w.file.id) =>
                  /\ Stale(file_table, w.file)
                  /\ InQueue(get_files_to_process(file_table, drive_files), w.file)
        /\ (phase = "batch" /\ phase' = "ensure_assistant") =>
              summary'[1] = CountRecorded
      ]_vars

\* the batch is over: a modified document failed and its old record is
\* still in the table, the other document was recorded
C12_Witness ==
    /\ phase = "batch"
    /\ \A w \in Workers : w.pc = "done"
    /\ \E w \in Workers :
          /\ Failed(w)
          /\ \E c \in Checksums \ {w.file.md5Checksum} : HasRecord(file_table, w.file.id, c)
    /\ \E w \in Workers : Recorded(w)

\* C13: the table is read only by the comparator, whose check_file_status
\* calls all run in the one step start() takes before any coroutine of a
\* batch exists, and written only by a coroutine that stands in the upsert;
\* the lock is held exactly while one coroutine stands in the upsert, so at
\* most one coroutine does, and no get runs while an upsert does.
C13_OneTableOperationAtATime ==
    /\ CountPc(tasks, {"Upserting"}) <= 1
    /\ locked <=> CountPc(tasks, {"Upserting"}) = 1
    /\ phase = "compare" => (tasks = EmptyBag /\ ~locked)
    /\ phase # "batch" => CountPc(tasks, {"Upserting"}) = 0

\* one coroutine holds the lock in its upsert while another one, whose upload
\* was confirmed too, waits for the lock
C13_Witness ==
    /\ locked
    /\ CountPc(tasks, {"Upserting"}) = 1
    /\ CountPc(tasks, {"Committing"}) >= 1

AllFiles ==
    {[id |-> id, name |-> name, md5Checksum |-> checksum] :
        id \in Ids, name \in Names, checksum \in Checksums}

\* C14: on every table the program reaches and for every (id, name,
\* checksum), writing the record a second time gives the table the first
\* write gave, with no record added.
C14_UpsertIdempotent ==
    \A file \in AllFiles :
        LET once == mark_file_as_processed(file_table, file)
        IN  /\ mark_file_as_processed(once, file) = once
            /\ TableUpsert(once, Record(file)) = once
            /\ Len(TableUpsert(once, Record(file))) = Len(once)

\* two coroutines of one batch have written the same record one after the
\* other, next to the record of another document
C14_Witness ==
    /\ phase = "batch"
    /\ Len(file_table) = 2
    /\ \E w \in Workers :
          /\ Recorded(w)
          /\ tasks[w] = 2
          /\ file_table[2] = Record(w.file)

\* the scratch paths a coroutine writes: its download and its processed text
ScratchPaths(w) == {local_path(w.file), processed_path(w.file)}

\* the path a coroutine is writing at its present await
Writing(w) ==
    CASE w.pc = "Downloading" -> {local_path(w.file)}
      [] w.pc = "Chunking"    -> {processed_path(w.file)}
      [] OTHER                -> {}

\* C15 as stated: two coroutines that hold a slot for two distinct documents
\* have no scratch path in common, and never write the same path at the same
\* time.
C15_NoSharedScratchPath ==
    \A w \in Workers : \A v \in Workers :
        (w.file.id # v.file.id /\ w.pc \in Slotted /\ v.pc \in Slotted) =>
            /\ ScratchPaths(w) \cap ScratchPaths(v) = {}
            /\ Writing(w) \cap Writing(v) = {}

\* C16: the scratch directory is empty whenever start() is called and until
\* the comparator has run (it was emptied when the engine was constructed
\* and by the finally of the call before), and every step that ends start(),
\* by return or by raise, leaves it empty.
C16_ScratchEmptyAtStartAndEnd ==
    [][ /\ (phase \in {"idle", "ensure_vector_store", "list_pdfs", "compare"}) =>
              temp_data = {}
        /\ (phase = "idle" /\ phase' # "idle") => temp_data' = {}
        /\ (phase' = "idle") => temp_data' = {}
      ]_vars

\* the batch is over and has left a download and a processed text behind;
\* start() is about to end by return or by raise
C16_Witness ==
    /\ phase = "ensure_assistant"
    /\ \E file \in AllFiles : {local_path(file), processed_path(file)} \subseteq temp_data
    /\ ENABLED EnsureAssistantReturn
    /\ ENABLED EnsureAssistantRaise

\* C17: the batch returns only when every coroutine has returned; the
\* summary it logs then has succeeded + failed = number of queued documents,
\* succeeded = number of coroutines that returned True, failed = number of
\* the others, and the name of every document whose coroutine did not return
\* True is in a "Failed to process" line of the log.
C17_SummaryCountsEveryWorkItem ==
    [][ (phase = "batch" /\ phase' # "batch") =>
          /\ \A w \in Workers : w.pc = "done"
          /\ BagCardinality(tasks) = Len(files_to_process)
          /\ summary'[1] + summary'[2] = Len(files_to_process)
          /\ summary'[1] = CountRecorded
          /\ summary'[2] = BagCardinality(tasks) - CountRecorded
          /\ \A w \in Workers : ~Recorded(w) => w.file.name \in error_log
      ]_vars

\* a batch of two documents has returned with one success and one failure
C17_Witness ==
    /\ phase = "ensure_assistant"
    /\ Len(files_to_process) = 2
    /\ summary = <<1, 1>>
    /\ Cardinality(error_log) = 1

\* place of an await in _process_single_file; Uploading, Committing and
\* Upserting are the WorkItem's Uploading state up to the return of the upsert
Rank(pc) ==
    CASE pc = "Discovered"  -> 0
      [] pc = "Downloading" -> 1
      [] pc = "Extracting"  -> 2
      [] pc = "Chunking"    -> 3
      [] pc = "Uploading"   -> 4
      [] pc = "Committing"  -> 5
      [] pc = "Upserting"   -> 6
      [] OTHER              -> 7

\* the coroutine w fails in its next step
FailsNow(w) ==
    /\ StageRaiseOf(w) \/ UpsertRaiseOf(w)
    /\ BagIn(Returned(w, "False"), tasks')

\* C18: every step of a coroutine takes it from one await to the next one
\* in the order Discovered, Downloading, Extracting, Chunking, Uploading
\* (upload, lock, upsert), or ends it; it ends in Recorded only from the
\* upsert and in Failed only from a stage it executes.  From every stage a
\* coroutine executes the failing step is possible at once, and a coroutine
\* that waits for a slot or for the lock goes on as soon as that is free.  A
\* coroutine that has returned never takes a step again while the batch runs.
C18_StagesInOrder ==
    [][ /\ \A w \in Workers : \A v \in BagToSet(tasks') :
              Moves(w, v) =>
                  /\ w.pc # "done"
                  /\ v.file = w.file
                  /\ v.pc # "done" => Rank(v.pc) = Rank(w.pc) + 1
                  /\ Recorded(v) => w.pc = "Upserting"
                  /\ Failed(v) => w.pc \in Stages \cup {"Upserting"}
                  /\ v.pc = "done" => (Recorded(v) \/ Failed(v))
        /\ \A w \in Workers :
              /\ (w.pc \in Stages \cup {"Upserting"}) => ENABLED FailsNow(w)
              /\ (w.pc = "Discovered" /\ semaphore > 0) => ENABLED AcquireSlotOf(w)
              /\ (w.pc = "Committing" /\ ~locked) => ENABLED AcquireLockOf(w)
        /\ \A w \in Workers :
              (w.pc = "done" /\ phase' = "batch") => CopiesIn(w, tasks') >= CopiesIn(w, tasks)
      ]_vars

\* one coroutine has been recorded, the other stands in its upsert, from
\* where it can still fail
C18_Witness ==
    /\ phase = "batch"
    /\ \E w \in Workers : Recorded(w)
    /\ \E w \in Workers : w.pc = "Upserting" /\ ENABLED FailsNow(w)

\* the chunks chunk_text returned
Chunks == chunks[1]

\* a sentence end, whitespace and an upper-case letter stand inside c
HasSentenceBreak(c) ==
    \E i \in 2..Len(c) : \E j \in i..(Len(c) - 1) :
        /\ c[i - 1] \in SentenceEnd
        /\ \A k \in i..j : c[k] \in Whitespace
        /\ c[j + 1] \in Upper

\* a blank line stands inside c
HasParagraphBreak(c) ==
    \E i \in 1..Len(c) : \E j \in (i + 1)..Len(c) :
        /\ c[i] = "\n"
        /\ c[j] = "\n"
        /\ \A k \in (i + 1)..(j - 1) : c[k] \in Whitespace

\* C19: every chunk chunk_text returns is at most max_chunk_chars long,
\* unless it is one sentence: a text longer than max_chunk_chars that holds
\* neither a blank line nor a sentence end followed by whitespace and an
\* upper-case letter.
C19_ChunkLengthBound ==
    chunks # << >> =>
        \A i \in 1..Len(Chunks) :
            \/ Len(Chunks[i]) <= max_chunk_chars
            \/ ~HasSentenceBreak(Chunks[i]) /\ ~HasParagraphBreak(Chunks[i])

\* chunk_text split an oversized paragraph into sentences and returned one
\* of them within the limit and another one, oversized, as a chunk of its own
C19_Witness ==
    /\ chunks # << >>
    /\ Len(split_by_sentences(text)) >= 2
    /\ \E i \in 1..Len(Chunks) :
          Len(Chunks[i]) <= max_chunk_chars /\ Len(Chunks[i]) >= 2
    /\ \E i \in 1..Len(Chunks) : Len(Chunks[i]) > max_chunk_chars

RECURSIVE Concat(_)
Concat(pieces) == IF pieces = << >> THEN << >> ELSE Head(pieces) \o Concat(Tail(pieces))

\* s with all whitespace removed
Squeeze(s) == SelectSeq(s, LAMBDA c : c \notin Whitespace)

\* C20: the chunks chunk_text returns, concatenated in order and with all
\* whitespace removed, are the text with all whitespace removed.
C20_ContentPreserved ==
    chunks # << >> => Squeeze(Concat(Chunks)) = Squeeze(text)

\* chunk_text split an oversized paragraph into sentences, sealed a chunk and
\* returned chunks whose concatenation differs from the text in whitespace
C20_Witness ==
    /\ chunks # << >>
    /\ Len(Chunks) >= 2
    /\ Concat(Chunks) # text
    /\ Len(text) > max_chunk_chars
    /\ Len(split_by_sentences(text)) >= 3

\* the stripped, non-empty paragraphs of s in document order
Paragraphs(s) == StripAll(SplitAt("paragraph", strip(s), 1, 1))

\* the pieces chunk_text packs, in document order: every paragraph within
\* the limit, and the sentences of every paragraph beyond it
RECURSIVE PiecesOf(_, _)
PiecesOf(paragraphs, max) ==
    IF paragraphs = << >> THEN << >>
    ELSE (IF Len(Head(paragraphs)) > max
          THEN split_by_sentences(Head(paragraphs))
          ELSE <<Head(paragraphs)>>) \o PiecesOf(Tail(paragraphs), max)

Pieces == PiecesOf(Paragraphs(text), max_chunk_chars)

\* the chunks hold the pieces in order: the first chunk the first few of
\* them, the next chunk the pieces after those, and so on to the last piece
RECURSIVE InOrder(_, _)
InOrder(chunkList, pieces) ==
    IF chunkList = << >> THEN pieces = << >>
    ELSE \E k \in 1..Len(pieces) :
            /\ Squeeze(Head(chunkList)) = Squeeze(Concat(SubSeq(pieces, 1, k)))
            /\ InOrder(Tail(chunkList), SubSeq(pieces, k + 1, Len(pieces)))

\* C21: chunk_text returns no chunk for a text without a character other
\* than whitespace, every chunk it returns holds such a character, and the
\* chunks hold the paragraphs and sentences of the text in document order.
C21_NoEmptyChunkAndInOrder ==
    chunks # << >> =>
        /\ (\A k \in 1..Len(text) : text[k] \in Whitespace) => Chunks = << >>
        /\ \A i \in 1..Len(Chunks) :
              \E k \in 1..Len(Chunks[i]) : Chunks[i][k] \notin Whitespace
        /\ InOrder(Chunks, Pieces)

\* chunk_text returned several chunks for a text that starts and ends with
\* whitespace
C21_Witness ==
    /\ chunks # << >>
    /\ Len(Chunks) >= 2
    /\ text[1] \in Whitespace
    /\ text[Len(text)] \in Whitespace

\* how often piece occurs in a sequence of texts
Occurrences(piece, list) == Cardinality({i \in 1..Len(list) : list[i] = piece})

\* C22: every sentence of an oversized paragraph that is itself longer than
\* max_chunk_chars is returned as a chunk equal to it, as often as it occurs,
\* and no other chunk is longer than max_chunk_chars; a text that is one
\* paragraph longer than max_chunk_chars without a sentence boundary gives
\* exactly one chunk, the stripped text.
C22_OversizedSentenceVerbatim ==
    chunks # << >> =>
        /\ LET pieces == Pieces
           IN  /\ \A j \in 1..Len(pieces) :
                     Len(pieces[j]) > max_chunk_chars =>
                         Occurrences(pieces[j], Chunks) = Occurrences(pieces[j], pieces)
               /\ \A i \in 1..Len(Chunks) :
                     Len(Chunks[i]) > max_chunk_chars =>
                         Occurrences(Chunks[i], pieces) >= 1
        /\ ( /\ Len(strip(text)) > max_chunk_chars
             /\ ~HasParagraphBreak(strip(text))
             /\ ~HasSentenceBreak(strip(text)) ) => Chunks = <<strip(text)>>

\* an oversized sentence stands between two short sentences of its
\* paragraph and was returned as the second of three chunks
C22_Witness ==
    /\ chunks # << >>
    /\ Len(Chunks) = 3
    /\ Len(Pieces) = 3
    /\ Len(Chunks[2]) > max_chunk_chars
    /\ Len(Chunks[1]) <= max_chunk_chars
    /\ Len(Chunks[3]) <= max_chunk_chars

\* the paragraphs joined by a blank line (two newline characters)
RECURSIVE Joined(_)
Joined(paragraphs) ==
    IF paragraphs = << >> THEN << >>
    ELSE IF Len(paragraphs) = 1 THEN Head(paragraphs)
    ELSE Head(paragraphs) \o <<"\n", "\n">> \o Joined(Tail(paragraphs))

\* C23 as stated: whenever the non-empty paragraphs of the text, joined by a
\* blank line, are no longer than max_chunk_chars, chunk_text returns exactly
\* one chunk, the joined text.
C23_OneChunkWhenJoinedFits ==
    chunks # << >> =>
        LET paragraphs == Paragraphs(text)
        IN  (paragraphs # << >> /\ Len(Joined(paragraphs)) <= max_chunk_chars)
                => Chunks = <<Joined(paragraphs)>>

\* C23: chunk_text returns exactly one chunk, the non-empty paragraphs joined
\* by a blank line, when the text has one non-empty paragraph no longer than
\* max_chunk_chars or several whose joined text is at least two characters
\* shorter than max_chunk_chars; several paragraphs whose joined text is
\* within the limit but less than two characters below it give two or more
\* chunks.
C23_OneChunkWhenJoinedFitsWithSeparator ==
    chunks # << >> =>
        LET paragraphs == Paragraphs(text)
            joined == Joined(paragraphs)
        IN  /\ ( /\ paragraphs # << >>
                 /\ \/ Len(paragraphs) = 1 /\ Len(joined) <= max_chunk_chars
                    \/ Len(joined) + 2 <= max_chunk_chars )
                    => Chunks = <<joined>>
            /\ ( /\ Len(paragraphs) >= 2
                 /\ Len(joined) <= max_chunk_chars
                 /\ Len(joined) + 2 > max_chunk_chars )
                    => Len(Chunks) >= 2

\* chunk_text packed two paragraphs into the one chunk it returned, with the
\* limit exactly two characters above the joined text
C23_Witness ==
    /\ chunks # << >>
    /\ Len(Paragraphs(text)) = 2
    /\ Len(Joined(Paragraphs(text))) + 2 = max_chunk_chars
    /\ Chunks = <<Joined(Paragraphs(text))>>

\* the text has no character other than whitespace
OnlyWhitespace(s) == \A i \in 1..Len(s) : s[i] \in Whitespace

\* the label inject_metadata writes in front of a field
Label(field) ==
    CASE field = "title" -> "Title: "
      [] field = "author" -> "Author: "
      [] field = "year" -> "Year: "
      [] field = "internal_page_number" -> "Internal Pagination: "

\* what a text shows behind a label, up to the end of the line
Written(label, out) ==
    LET at == CHOOSE i \in 1..Len(out) : out[i] = label
        end == CHOOSE j \in at..Len(out) :
                   /\ out[j] = "\n"
                   /\ \A k \in (at + 1)..(j - 1) : out[k] # "\n"
    IN  SubSeq(out, at + 1, end - 1)

\* the field is missing from the dict, or an empty or whitespace-only string
MissingOrBlank(dict, field) ==
    \/ field \notin DOMAIN dict
    \/ dict[field].type = "str" /\ strip(dict[field].value) = << >>

\* C24 as stated: for a chunk that is not blank, inject_metadata writes
\* "Unknown" for each of the four fields that is missing from the dict, empty
\* or whitespace-only.
C24_UnknownWhenMissingOrBlank ==
    (inject_outcome = "returned" /\ ~OnlyWhitespace(raw_chunk_text)) =>
        \A field \in Fields :
            MissingOrBlank(metadata_dict, field) =>
                Written(Label(field), enriched_chunk) = Unknown

\* the fixed strings of the block
Labels == {Label(field) : field \in Fields}

\* how often token occurs in out
Count(token, out) == Cardinality({i \in 1..Len(out) : out[i] = token})

\* C25: inject_metadata never raises, and for a chunk that is not blank and
\* any dict, valid or not, it returns the stripped chunk followed by one
\* block: a blank line, the rule, the heading, then one line for each of
\* Title:, Author:, Year: and Internal Pagination: in that order, each with
\* its value, and the rule again.
C25_NeverRaisesFixedBlock ==
    /\ inject_outcome # "raised"
    /\ (inject_outcome = "returned" /\ ~OnlyWhitespace(raw_chunk_text)) =>
          LET body == strip(raw_chunk_text)
              block == SubSeq(enriched_chunk, Len(body) + 1, Len(enriched_chunk))
              line(field) == <<Label(field)>> \o Written(Label(field), block) \o <<"\n">>
          IN  /\ SubSeq(enriched_chunk, 1, Len(body)) = body
              /\ SelectSeq(block, LAMBDA t : t \in Labels) =
                    <<"Title: ", "Author: ", "Year: ", "Internal Pagination: ">>
              /\ Count(Rule, block) = 2
              /\ Count(Heading, block) = 1
              /\ block = <<"\n", "\n", Rule, "\n", Heading, "\n">>
                            \o line("title") \o line("author") \o line("year")
                            \o line("internal_page_number") \o <<Rule, "\n">>

\* inject_metadata returned a block for a chunk with whitespace around it and
\* a dict that fails validation
C25_Witness ==
    /\ inject_outcome = "returned"
    /\ ~OnlyWhitespace(raw_chunk_text)
    /\ strip(raw_chunk_text) # raw_chunk_text
    /\ ChunkMetadata(metadata_dict).raised
    /\ Len(enriched_chunk) > Len(raw_chunk_text)

\* C26: for an empty or whitespace-only chunk and any dict, inject_metadata
\* returns the chunk as it was given, without any part of a block.
C26_BlankChunkUnchanged ==
    (inject_outcome # "none" /\ OnlyWhitespace(raw_chunk_text)) =>
        /\ inject_outcome = "returned"
        /\ enriched_chunk = raw_chunk_text
        /\ \A i \in 1..Len(enriched_chunk) :
              enriched_chunk[i] \notin Labels \cup {Rule, Heading}

\* inject_metadata returned for a whitespace-only chunk and a dict with all
\* four fields given
C26_Witness ==
    /\ inject_outcome = "returned"
    /\ raw_chunk_text # << >>
    /\ OnlyWhitespace(raw_chunk_text)
    /\ DOMAIN metadata_dict = Fields
    /\ \A field \in Fields : ~MissingOrBlank(metadata_dict, field)
                             /\ metadata_dict[field].type = "str"

BatchDone == phase = "batch" /\ \A w \in Workers : w.pc = "done"

\* C28: with every call answered, a started cycle ends and a started batch
\* reaches the state in which every coroutine has returned True or False;
\* during the batch the free slots and the coroutines between admission and
\* return add up to max_concurrent_tasks and the lock is held exactly while a
\* coroutine is in the upsert, so every exit gave back what it held; when all
\* coroutines have returned all 10 slots are free and the lock is free; and
\* in no state of a started cycle is every coroutine and start() blocked.
C28_CycleTerminatesAndReleases ==
    /\ (phase # "idle") ~> (phase = "idle")
    /\ (phase = "batch") ~> BatchDone
    /\ [](phase = "batch" =>
            /\ semaphore + CountPc(tasks, Slotted) = max_concurrent_tasks
            /\ locked <=> (CountPc(tasks, {"Upserting"}) = 1)
            /\ CountPc(tasks, {"Upserting"}) <= 1)
    /\ [](BatchDone => (semaphore = max_concurrent_tasks /\ ~locked))
    /\ [](phase # "idle" => ENABLED CycleStep)

\* a batch of more coroutines than slots has ended with documents recorded
\* and documents failed
C28_Witness ==
    /\ BatchDone
    /\ BagCardinality(tasks) > max_concurrent_tasks
    /\ \E w \in Workers : Recorded(w)
    /\ \E w \in Workers : Failed(w)
    /\ semaphore = max_concurrent_tasks

\* the attempts made so far, the one in progress or returned included
AttemptsMade == Len(attempts) + IF call_state \in {"attempting", "returned"} THEN 1 ELSE 0

\* C29: a call makes at most 5 attempts for the remote listing, 3 for the
\* download, 5 for the index upload and 3 for the index setup; an attempt is
\* followed by another one only if it raised an exception of a type its
\* decorator names; an exception of another type leaves the call as it is, in
\* the attempt that raised it; a named exception leaves the call only from the
\* last allowed attempt, as itself or as a RetryError; and the exception that
\* left the call makes the coroutine return False for download and upload and
\* makes start() raise for listing and setup.
C29_BoundedRetries ==
    call_state # "idle" =>
        /\ call = "list_pdfs_in_folder" => AttemptsMade <= 5
        /\ call = "download_file" => AttemptsMade <= 3
        /\ call = "upload_file_to_store" => AttemptsMade <= 5
        /\ call = "ensure_vector_store" => AttemptsMade <= 3
        /\ \A i \in 1..Len(attempts) :
              (i < Len(attempts) \/ call_state # "raised") =>
                  isinstance(attempts[i], retry_if_exception_type(call))
        /\ call_state = "raised" =>
              LET last == attempts[Len(attempts)]
              IN  IF isinstance(last, retry_if_exception_type(call))
                  THEN /\ Len(attempts) = stop_after_attempt(call)
                       /\ surfaced \in {last, "RetryError"}
                  ELSE surfaced = last
        /\ call_state # "raised" => (surfaced = None /\ handled = "none")
        /\ handled # "none" =>
              /\ call \in {"download_file", "upload_file_to_store"} => handled = "False"
              /\ call \in {"list_pdfs_in_folder", "ensure_vector_store"} => handled = "raised"

\* the fifth attempt of an upload raised a named exception and the coroutine
\* returned False
C29_Witness ==
    /\ call = "upload_file_to_store"
    /\ Len(attempts) = 5
    /\ surfaced = "RetryError"
    /\ handled = "False"

\* C30 as stated: main() has logged its success line, and has exited with
\* status 0 after it, only if the cycle of engine.start() ran and completed.
C30_SuccessOnlyAfterCycle ==
    success_logged => outcome = "completed"

\* C32: the batch is left, and start() ends and clears TEMP_DIR, only when
\* no coroutine of the cycle is left before its return; in every other step
\* a file disappears from TEMP_DIR only as the download file of a coroutine
\* whose own download raised in that step, so no file of a coroutine that
\* stands in Downloading, Extracting, Chunking or Uploading is removed by the
\* cleanup.
C32_CleanupAfterWorkers ==
    [][ /\ (phase = "batch" /\ phase' # "batch") => \A w \in Workers : w.pc = "done"
        /\ (phase # "idle" /\ phase' = "idle") =>
              ( /\ \A w \in Workers : w.pc = "done"
                /\ temp_data' = {} )
        /\ (phase' # "idle" /\ temp_data \ temp_data' # {}) =>
              \E w \in Workers : \E v \in BagToSet(tasks') :
                  /\ w.pc = "Downloading"
                  /\ Moves(w, v)
                  /\ Failed(v)
                  /\ temp_data \ temp_data' = {local_path(w.file)}
      ]_vars

\* a cycle has ended by return after a batch that recorded a document, and
\* TEMP_DIR is empty
C32_Witness ==
    /\ phase = "idle"
    /\ outcome = "completed"
    /\ temp_data = {}
    /\ Len(file_table) = 1
    /\ tasks = EmptyBag

\* C35: when ensure_assistant raises after the batch, start() raises and the
\* table stays as the batch left it: every queued document that the batch
\* recorded is still recorded under the checksum of its listing entry, and
\* the comparator run on the same listing does not select it.
C35_RecordsSurviveLateFailure ==
    [][ (phase = "ensure_assistant" /\ phase' = "idle" /\ outcome' = "raised") =>
          ( /\ file_table' = file_table
            /\ \A i \in 1..Len(files_to_process) :
                  UpToDate(file_table, files_to_process[i]) =>
                      /\ UpToDate(file_table', files_to_process[i])
                      /\ ~InQueue(get_files_to_process(file_table', drive_files),
                                  files_to_process[i]) )
      ]_vars

\* the batch recorded one queued document and failed the other, and the
\* assistant step that follows can raise
C35_Witness ==
    /\ phase = "ensure_assistant"
    /\ Len(files_to_process) = 2
    /\ UpToDate(file_table, files_to_process[1])
    /\ ~UpToDate(file_table, files_to_process[2])
    /\ ENABLED EnsureAssistantRaise

\* the document ids that have a record
RecordedIds(table) == {table[i].file_id : i \in 1..Len(table)}

\* C36: no step removes a document id from the table, whatever the remote
\* listing holds and however the cycle ends.
C36_RecordedIdsNeverShrink ==
    [][RecordedIds(file_table) \subseteq RecordedIds(file_table')]_vars

\* a later cycle recorded a document while the table holds the record of a
\* document that the listing of this cycle no longer has
C36_Witness ==
    /\ phase = "batch"
    /\ \E w \in Workers : Recorded(w)
    /\ \E id \in RecordedIds(file_table) :
          \A i \in 1..Len(drive_files) : drive_files[i].id # id

\* C38: when the dict fails validation because of one of its fields,
\* inject_metadata returns a block with "Unknown" behind each of the four
\* labels, whatever the other fields were given.
C38_FallbackResetsAllFields ==
    (inject_outcome # "none" /\ ~OnlyWhitespace(raw_chunk_text)
        /\ \E field \in DOMAIN metadata_dict : field # "internal_page_number"
                                              /\ metadata_dict[field].type = "NoneType") =>
        /\ inject_outcome = "returned"
        /\ \A field \in Fields : Written(Label(field), enriched_chunk) = Unknown

\* the block was written for a dict whose title is None while its author and
\* its page number are strings with a character other than whitespace
C38_Witness ==
    /\ inject_outcome = "returned"
    /\ ~OnlyWhitespace(raw_chunk_text)
    /\ DOMAIN metadata_dict = Fields
    /\ metadata_dict["title"].type = "NoneType"
    /\ \A field \in {"author", "internal_page_number"} :
          /\ metadata_dict[field].type = "str"
          /\ ~OnlyWhitespace(metadata_dict[field].value)
    /\ Written("Author: ", enriched_chunk) = Unknown

\* C33: while the comparator loop runs no coroutine of the cycle exists and
\* no step writes the table; the coroutines are created in the step that
\* ends the loop, after the last listed file was looked up, and the queue
\* they are created from holds exactly the listed files that are new or
\* modified in the table as it was during the whole loop.
C33_QueueCompleteBeforeWorkers ==
    [][ /\ phase = "compare" =>
              ( /\ tasks = EmptyBag
                /\ file_table' = file_table
                /\ processing_queue =
                      StaleEntries(file_table, SubSeq(drive_files, 1, lookups)) )
        /\ tasks' # tasks /\ tasks = EmptyBag =>
              ( /\ phase = "compare"
                /\ lookups = Len(drive_files)
                /\ files_to_process' = StaleEntries(file_table, drive_files)
                /\ tasks' = BagOfWorkers(files_to_process') )
      ]_vars

\* a later cycle has looked up the first of two listed files, found its
\* record up to date and stands before the second lookup
C33_Witness ==
    /\ phase = "compare"
    /\ Len(drive_files) = 2
    /\ lookups = 1
    /\ processing_queue = << >>
    /\ file_table # << >>
    /\ ~locked

\* C34: no step of the comparator loop changes the table, each lookup gives
\* the lock back, and the queue the loop returns is the queue the comparator
\* returns when it is run again on the table and the listing it has left.
C34_ComparatorOnlyReads ==
    [][ phase = "compare" =>
          ( /\ file_table' = file_table
            /\ confirmed' = confirmed
            /\ drive_files' = drive_files
            /\ phase' # "compare" =>
                  ( /\ ~locked /\ ~locked'
                    /\ files_to_process' = get_files_to_process(file_table', drive_files') ) )
      ]_vars

\* the loop has returned a queue of one of two listed files over a table
\* that holds a record
C34_Witness ==
    /\ phase = "batch"
    /\ \A w \in Workers : w.pc = "Discovered"
    /\ Len(drive_files) = 2
    /\ Len(files_to_process) = 1
    /\ Len(file_table) >= 1
    /\ lookups = 0

\* the callers that have got a Lock from the property
PastAccess == {c \in 1..Len(callers) : callers[c].pc # "called"}

\* C31: the lock property of one DBManager makes at most one Lock; every
\* caller of check_file_status and mark_file_as_processed gets that Lock,
\* whichever caller came first, and at most one caller is inside
\* `async with self.lock` at a time.
C31_OneLockForAllCallers ==
    /\ locks_made <= 1
    /\ \A c \in PastAccess : callers[c].lock = lock_object /\ lock_object # 0
    /\ \A c, d \in PastAccess : callers[c].lock = callers[d].lock
    /\ \A c, d \in PastAccess :
          (callers[c].pc = "holding" /\ callers[d].pc = "holding") => c = d
    /\ locked <=> \E c \in PastAccess : callers[c].pc = "holding"

\* an upsert holds the Lock while a lookup waits for it and a third caller
\* has not reached the property yet
C31_Witness ==
    /\ \E c \in PastAccess : callers[c].pc = "holding"
                             /\ callers[c].op = "mark_file_as_processed"
    /\ \E c \in PastAccess : callers[c].pc = "waiting"
                             /\ callers[c].op = "check_file_status"
    /\ \E c \in 1..Len(callers) : callers[c].pc = "called"

\* no page of the list gives a chunk: the list is empty or every page text
\* is empty or blank
NoChunks(pages) == \A i \in 1..Len(pages) : OnlyWhitespace(pages[i].text)

\* the coroutines whose processed text was written
PastWrite == {w \in Workers : w.pc \in {"Uploading", "Committing", "Upserting"}
                               \/ Recorded(w)}

\* C37: a document whose pages give no chunk goes the way of every other
\* document.  Its processed file is written, with an empty text exactly when
\* no page gave a chunk; the upload can return for it; and with a truthy
\* upload status it is recorded under its checksum.
C37_EmptyPayloadIsRecorded ==
    \A w \in Workers :
        /\ w \in PastWrite =>
              /\ extracted_pages # << >> /\ final_document_text # << >>
              /\ final_document_text[1] = << >> <=> NoChunks(extracted_pages[1])
        /\ w.pc = "Uploading" =>
              /\ processed_path(w.file) \in temp_data
              /\ ENABLED UploadReturn
        /\ Recorded(w) => HasRecord(file_table, w.file.id, w.file.md5Checksum)

\* a document with pages that gave no chunk was recorded after its empty
\* text was uploaded
C37_Witness ==
    \E w \in Workers :
        /\ Recorded(w)
        /\ HasRecord(file_table, w.file.id, w.file.md5Checksum)
        /\ extracted_pages # << >> /\ extracted_pages[1] # << >>
        /\ NoChunks(extracted_pages[1])
        /\ final_document_text = << << >> >>

====
